---- MODULE Spec2Model ----
(***************************************************************************)
(* A model of the PLC test-plan runners of siemens-module-simulator:       *)
(*   plan_runner.run_plan / plan_runner._run_test      (variant "console") *)
(*   plc_tester_gui.run_plan / plc_tester_gui._run_test (variant "simple") *)
(*   PLCTestGUI.run_plan / PLCTestGUI._run_test         (variant "gui")    *)
(* running against PLCConnection, a wrapper around a snap7 client, and a   *)
(* device that stores the bytes of its data blocks faithfully but whose    *)
(* calls may raise (transport errors).                                     *)
(***************************************************************************)
EXTENDS Integers, Sequences, FiniteSets, TLC

VARIABLES
  variant,     \* which entry point runs the plan: "console", "simple", "gui"
  plan,        \* the TestPlan handed to run_plan (a sequence of modules)
  pc,          \* position of the runner
  mi, ti, si, ai, \* 1-based indexes of the current module, test, step, address
  connected,   \* PLCConnection.connected
  session,     \* whether the snap7 client holds an open session to the device
  mem,         \* device memory: data block -> offset -> byte
  success,     \* _run_test: success
  failures,    \* _run_test: failures
  exc,         \* the exception propagating out of the runner ("" when none)
  trace,       \* every call on the client, every sleep and every log line, in order
  faults,      \* transport errors the device has raised on its own so far
  clicks       \* presses of the GUI's Connect / Disconnect buttons so far

vars == <<variant, plan, pc, mi, ti, si, ai, connected, session, mem,
          success, failures, exc, trace, faults, clicks>>

\* ------------------------------------------------------------------ bounds

\* Transport errors the device may raise on its own during one run.
MaxFaults == 1
\* Bytes of each data block of the modelled device.
MemSize == 8
\* Presses of the Connect / Disconnect buttons of the GUI around one run.
MaxClicks == 1
\* Calls a caller makes on one PLCConnection it holds.
MaxCalls == 6
\* Loads and saves of the plan in one session of the GUI.
MaxFileOps == 3
\* Presses of OK in the step editor in one session of the GUI.
MaxPresses == 1

\* ------------------------------------------------------- Python values

\* A Python value of a step field: None, a bool or a number.
None == [k |-> "none", v |-> 0]
PyInt(n) == [k |-> "int", v |-> n]
PyBool(b) == [k |-> "bool", v |-> IF b THEN 1 ELSE 0]
IsNone(x) == x.k = "none"
\* bool(x)
Truthy(x) == x.v # 0
\* A scalar-or-list field of a TestStep.
Scalar(x) == [list |-> FALSE, items |-> <<x>>]
List(xs) == [list |-> TRUE, items |-> xs]

\* An address as str(start).split(".") sees it: the dot-separated parts, and
\* whether every part is accepted by int().  isstr tells "5" from 5.
IntAddr(n) == [parts |-> <<n>>, numeric |-> TRUE, isstr |-> FALSE]
BitAddr(b, i) == [parts |-> <<b, i>>, numeric |-> TRUE, isstr |-> TRUE]
BadAddr == [parts |-> <<0, 0>>, numeric |-> FALSE, isstr |-> TRUE]

TestStep(description, db_number, start, data_type, write, expected, delay_ms) ==
  [description |-> description, db_number |-> db_number, start |-> start,
   data_type |-> data_type, write |-> write, expected |-> expected,
   delay_ms |-> delay_ms]

TestCase(name, steps) == [name |-> name, steps |-> steps]
ModulePlan(name, tests) == [name |-> name, tests |-> tests]

\* ------------------------------------------------------------ Type Codec

Pow2(n) == 2 ^ n

\* snap7.util.get_bool(data, 0, bit_idx): (byte & (1 << bit)) == (1 << bit)
get_bool(byte, bit_idx) == (byte \div Pow2(bit_idx)) % 2 = 1

\* set_bool storing the mask of the bit instead of changing the bit in place.
set_bool_Clobber(byte, bit_idx, value) ==
  [ok |-> TRUE, bytes |-> <<IF value THEN Pow2(bit_idx) ELSE 0>>]

\* snap7.util.set_bool(cur, 0, bit_idx, value): add or subtract 1 << bit when
\* the bit differs from value.  ok is FALSE when the bytearray rejects the result.
set_bool(byte, bit_idx, value) ==
  LET r == IF get_bool(byte, bit_idx) = value THEN byte
           ELSE IF value THEN byte + Pow2(bit_idx)
           ELSE byte - Pow2(bit_idx)
  IN  [ok |-> r \in 0..255, bytes |-> <<r>>]

\* struct.pack(">h" / ">H" / ">i" / ">I", int(v)): big-endian, two's complement;
\* a value outside the format's range raises struct.error.
PackBE(size, lo, hi, v) ==
  IF v < lo \/ v > hi THEN [ok |-> FALSE, bytes |-> <<>>]
  ELSE LET top == IF v < 0 THEN 256 + (v \div Pow2(8 * (size - 1)))
                  ELSE v \div Pow2(8 * (size - 1))
       IN  [ok |-> TRUE,
            bytes |-> [j \in 1..size |->
                        IF j = 1 THEN top
                        ELSE (v \div Pow2(8 * (size - j))) % 256]]

\* struct.unpack of size big-endian bytes, signed or unsigned (an unsigned
\* value of 2^31 or more is beyond the integers of the model checker: the
\* device memory of the model keeps such words out of DWORD reads).
RECURSIVE UnpackTail(_, _)
UnpackTail(bytes, acc) ==
  IF bytes = <<>> THEN acc ELSE UnpackTail(Tail(bytes), acc * 256 + Head(bytes))

UnpackBE(bytes, signed) ==
  LET first == IF signed /\ Head(bytes) >= 128 THEN Head(bytes) - 256 ELSE Head(bytes)
  IN  UnpackTail(Tail(bytes), first)

\* struct.pack(">f", float(v)): sign, biased exponent and mantissa of the
\* IEEE-754 single.  The model's REAL values are integral and of magnitude
\* below 2^24, which a single holds exactly.
RECURSIVE Log2(_)
Log2(n) == IF n < 2 THEN 0 ELSE 1 + Log2(n \div 2)

PackReal(v) ==
  LET a == IF v < 0 THEN -v ELSE v
      s == IF v < 0 THEN 1 ELSE 0
      e == Log2(a)
      ex == IF a = 0 THEN 0 ELSE e + 127
      man == IF a = 0 THEN 0 ELSE (a - Pow2(e)) * Pow2(23 - e)
  IN  CASE a < Pow2(24) ->
        [ok |-> TRUE,
         bytes |-> << s * 128 + ex \div 2,
                      (ex % 2) * 128 + man \div 65536,
                      (man \div 256) % 256,
                      man % 256 >>]

\* struct.unpack(">f", bytes): the single read back, kept as its bit pattern in
\* sign-magnitude form (sign, then exponent * 2^23 + mantissa), which names the
\* float exactly (-0.0 and 0.0, equal in Python, both are 0).
UnpackReal(bytes) ==
  LET mag == (bytes[1] % 128) * 16777216 + bytes[2] * 65536 + bytes[3] * 256 + bytes[4]
  IN  IF bytes[1] >= 128 THEN -mag ELSE mag

\* The comparison of a REAL done with ==, as for the other types.
RealClose_Exact(val, e) == val = UnpackReal(PackReal(e).bytes)

\* floor(1e-6 * 2^d): the largest difference, in units of 2^-d, below 1e-6.
Tolerance(d) ==
  CASE d = 23 -> 8 [] d = 22 -> 4 [] d = 21 -> 2 [] d = 20 -> 1 [] OTHER -> 0

Abs(x) == IF x < 0 THEN -x ELSE x

\* abs(val - float(e)) < 1e-6 for the single val (as UnpackReal gives it) and
\* an integral e: val is N * 2^(ex - 150) with N = 2^23 + mantissa.
RealClose(val, e) ==
  LET neg == val < 0
      mag == Abs(val)
      ex == mag \div Pow2(23)
      man == mag % Pow2(23)
      N == IF ex = 0 THEN man ELSE Pow2(23) + man
      a == Abs(e)
      d == 150 - ex
  IN  CASE ex = 255 -> FALSE
        [] ex # 255 /\ e = 0 ->
             ex <= 106 \/ (ex = 107 /\ N <= 8796093)
        [] ex # 255 /\ e # 0 /\ mag # 0 /\ neg # (e < 0) -> FALSE
        [] ex # 255 /\ e # 0 /\ mag = 0 -> FALSE
        [] ex # 255 /\ e # 0 /\ mag # 0 /\ neg = (e < 0) ->
             IF ex >= 158 THEN FALSE
             ELSE IF ex >= 151 THEN a = N * Pow2(ex - 150)
             ELSE IF ex >= 127
                  THEN /\ a <= Pow2(24 - d)
                       /\ Abs(N - a * Pow2(d)) <= Tolerance(d)
             ELSE ex = 126 /\ a = 1 /\ Pow2(24) - N <= 16

\* plc_tester_gui.TYPE_FUNCS: dtype -> (size, set_func, get_func)
TYPE_FUNCS == {"INT", "DINT", "WORD", "DWORD", "REAL"}

TypeSize(dtype) ==
  CASE dtype = "INT" -> 2
    [] dtype = "DINT" -> 4
    [] dtype = "WORD" -> 2
    [] dtype = "DWORD" -> 4
    [] dtype = "REAL" -> 4

\* TYPE_FUNCS with set_int in the entry of WORD.
set_func_WordSigned(dtype, w) ==
  CASE dtype = "INT" -> PackBE(2, -32768, 32767, w.v)
    [] dtype = "DINT" -> PackBE(4, -2147483647 - 1, 2147483647, w.v)
    [] dtype = "WORD" -> PackBE(2, -32768, 32767, w.v)
    [] dtype = "DWORD" -> PackBE(4, 0, 2147483647, w.v)
    [] dtype = "REAL" -> PackReal(w.v)

set_func(dtype, w) ==
  CASE dtype = "INT" -> PackBE(2, -32768, 32767, w.v)
    [] dtype = "DINT" -> PackBE(4, -2147483647 - 1, 2147483647, w.v)
    [] dtype = "WORD" -> PackBE(2, 0, 65535, w.v)
    [] dtype = "DWORD" -> PackBE(4, 0, 2147483647, w.v) \* ">I" reaches 2^32 - 1,
                                    \* beyond the integers of the model checker
    [] dtype = "REAL" -> PackReal(w.v)

get_func(dtype, bytes) ==
  CASE dtype = "INT" -> UnpackBE(bytes, TRUE)
    [] dtype = "DINT" -> UnpackBE(bytes, TRUE)
    [] dtype = "WORD" -> UnpackBE(bytes, FALSE)
    [] dtype = "DWORD" -> UnpackBE(bytes, FALSE)
    [] dtype = "REAL" -> UnpackReal(bytes)

\* ------------------------------------------------------- Device Access Port

\* One entry of the trace: a call on the snap7 client (connect, disconnect,
\* read, write, with ok = it returned without raising), a sleep, a log line
\* (module, test, step, expect, error, result, failure), or "enter": the body
\* of the loop over the steps is entered for a step.
\* key is <<module, test, step, address position>> of the runner at that point.
Ev(ev, key, db, off, n, data, ok) ==
  [ev |-> ev, key |-> key, db |-> db, off |-> off, n |-> n, data |-> data, ok |-> ok]

DeviceEvents == {"read", "write"}

\* Whether the device serves an access of n bytes at off of block db.
CanIO(sess, m, db, off, n) ==
  sess /\ db \in DOMAIN m /\ off >= 0 /\ n >= 1 /\ off + n <= MemSize

\* The running state of one _run_test call while a step is executed: the device
\* memory, the calls issued, the last bytes read, the raised exception ("" when
\* none), success and failures.  n counts the device calls of the current
\* address; injected tells whether the device raised on its own.
Raise(st, msg) == IF st.exc # "" THEN st ELSE [st EXCEPT !.exc = msg]

\* PLCConnection.read: client.db_read(db, start, size).  f is the device call of
\* this address at which the device raises on its own (0: none).
PLCConnection_read(st, sess, key, db, start, size, f) ==
  IF st.exc # "" THEN st
  ELSE LET k == st.n + 1
           can == CanIO(sess, st.mem, db, start, size)
       IN  IF ~can \/ k = f
           THEN [st EXCEPT !.n = k, !.exc = "transport",
                           !.injected = can,
                           !.io = Append(@, Ev("read", key, db, start, size, <<>>, FALSE))]
           ELSE LET bytes == [j \in 1..size |-> st.mem[db][start + j - 1]]
                IN  [st EXCEPT !.n = k, !.data = bytes,
                               !.io = Append(@, Ev("read", key, db, start, size, bytes, TRUE))]

\* PLCConnection.write: client.db_write(db, start, data).
PLCConnection_write(st, sess, key, db, start, data, f) ==
  IF st.exc # "" THEN st
  ELSE LET k == st.n + 1
           size == Len(data)
           can == CanIO(sess, st.mem, db, start, size)
       IN  IF ~can \/ k = f
           THEN [st EXCEPT !.n = k, !.exc = "transport",
                           !.injected = can,
                           !.io = Append(@, Ev("write", key, db, start, size, data, FALSE))]
           ELSE [st EXCEPT !.n = k,
                           !.mem[db] = [o \in DOMAIN @ |->
                                          IF o >= start /\ o < start + size
                                          THEN data[o - start + 1] ELSE @[o]],
                           !.io = Append(@, Ev("write", key, db, start, size, data, TRUE))]

\* ------------------------------------------------------------ Step Executor

\* Lines 60-67 of plan_runner._run_test: scalars wrapped, one type broadcast,
\* an absent write / expected an empty list.
Starts(step) == step.start.items
\* Types giving every address the first type tag of the step.
Types_FirstForAll(step) ==
  [j \in 1..Len(Starts(step)) |-> step.data_type.items[1]]

\* Types without the broadcast of a single type tag.
Types_NoBroadcast(step) == step.data_type.items

Types(step) ==
  LET types == step.data_type.items
  IN  IF Len(types) = 1 /\ Len(Starts(step)) > 1
      THEN [j \in 1..Len(Starts(step)) |-> types[1]]
      ELSE types
Writes(step) ==
  IF step.write.list THEN step.write.items
  ELSE IF ~IsNone(step.write.items[1]) THEN <<step.write.items[1]>> ELSE <<>>
Expecteds(step) ==
  IF step.expected.list THEN step.expected.items
  ELSE IF ~IsNone(step.expected.items[1]) THEN <<step.expected.items[1]>> ELSE <<>>

\* WriteAt taking a value that is false in Python (0, False, 0.0) for absent,
\* as "if w:" would.
WriteAt_Truthy(step, pos) ==
  IF pos <= Len(Writes(step)) /\ Truthy(Writes(step)[pos]) THEN Writes(step)[pos]
  ELSE None

\* WriteAt giving the addresses past the end of writes the values from its
\* start again.
WriteAt_Wraps(step, pos) ==
  IF Writes(step) = <<>> THEN None
  ELSE Writes(step)[((pos - 1) % Len(Writes(step))) + 1]

\* w and e of address position pos (1-based here, sub_idx + 1 in the code).
WriteAt(step, pos) == IF pos <= Len(Writes(step)) THEN Writes(step)[pos] ELSE None
ExpectedAt(step, pos) == IF pos <= Len(Expecteds(step)) THEN Expecteds(step)[pos] ELSE None

\* int(start): accepted for an int and for a string holding one integer.
IntParsable(start) == Len(start.parts) = 1 /\ start.numeric
\* byte_str, bit_str = str(start).split("."); int(byte_str), int(bit_str)
BoolParsable(start) == Len(start.parts) = 2 /\ start.numeric

\* The place of {start} in a failure line that has none.
NoAddress == [parts |-> <<>>, numeric |-> FALSE, isstr |-> FALSE]

\* FailureLine numbering the steps from 0, as enumerate without start=1 would.
FailureLine_ZeroBased(kind, key, step, e, val, msg) ==
  [kind |-> kind, step |-> key[3] - 1, description |-> step.description,
   pos |-> IF kind = "mismatch" THEN key[4] ELSE 0,
   at |-> IF kind = "mismatch" THEN Starts(step)[key[4]] ELSE NoAddress,
   expected |-> e, got |-> val, msg |-> msg]

\* The two failure lines of _run_test:
\*   "step {idx} ({step.description}) at {start}: expected {e} got {val}"
\*   "step {idx} ({step.description}): {exc}"
\* pos is the position of start among the addresses of the step (0: no start).
FailureLine(kind, key, step, e, val, msg) ==
  [kind |-> kind, step |-> key[3], description |-> step.description,
   pos |-> IF kind = "mismatch" THEN key[4] ELSE 0,
   at |-> IF kind = "mismatch" THEN Starts(step)[key[4]] ELSE NoAddress,
   expected |-> e, got |-> val, msg |-> msg]

\* Compare raising AssertionError on a mismatch in every runner.
Compare_Raises(st, raising, key, step, e, val, ok) ==
  IF st.exc # "" THEN st
  ELSE LET logged == [st EXCEPT !.io = Append(@,
                         Ev("expect", key, step.db_number, 0, val, <<>>, ok))]
       IN  IF ok THEN logged ELSE Raise(logged, "AssertionError")

\* The comparison of a read-back value: the "Expect .. got .." line, and on a
\* mismatch the failure entry and success = False; the module-level runner of
\* plc_tester_gui raises AssertionError instead.
Compare(st, raising, key, step, e, val, ok) ==
  IF st.exc # "" THEN st
  ELSE IF raising
       THEN IF ok THEN st ELSE Raise(st, "AssertionError")
       ELSE LET logged == [st EXCEPT !.io = Append(@,
                              Ev("expect", key, step.db_number, 0, val, <<>>, ok))]
            IN  IF ok THEN logged
                ELSE [logged EXCEPT
                        !.failures = Append(@, FailureLine("mismatch", key, step, e, val, "")),
                        !.success = FALSE]

\* ExecBool with the read-modify-write done whether or not w is None.
ExecBool_AlwaysWrites(st, sess, raising, key, step, start, w, e, f) ==
  IF ~BoolParsable(start) THEN Raise(st, "ValueError")
  ELSE
    LET byte_idx == start.parts[1]
        bit_idx == start.parts[2]
        r1 == PLCConnection_read(st, sess, key, step.db_number, byte_idx, 1, f)
        cur == set_bool(r1.data[1], bit_idx, Truthy(w))
        st1 == IF r1.exc = "" /\ ~cur.ok THEN Raise(r1, "ValueError")
               ELSE PLCConnection_write(r1, sess, key, step.db_number, byte_idx, cur.bytes, f)
        r2 == PLCConnection_read(st1, sess, key, step.db_number, byte_idx, 1, f)
        val == get_bool(r2.data[1], bit_idx)
    IN  IF ~IsNone(e)
        THEN Compare(r2, raising, key, step, e, IF val THEN 1 ELSE 0, val = Truthy(e))
        ELSE st1

\* dtype == "BOOL"
ExecBool(st, sess, raising, key, step, start, w, e, f) ==
  IF ~BoolParsable(start) THEN Raise(st, "ValueError")
  ELSE
    LET byte_idx == start.parts[1]
        bit_idx == start.parts[2]
        r1 == PLCConnection_read(st, sess, key, step.db_number, byte_idx, 1, f)
        cur == set_bool(r1.data[1], bit_idx, Truthy(w))
        w1 == IF r1.exc = "" /\ ~cur.ok THEN Raise(r1, "ValueError")
              ELSE PLCConnection_write(r1, sess, key, step.db_number, byte_idx, cur.bytes, f)
        st1 == IF ~IsNone(w) THEN w1 ELSE st
        r2 == PLCConnection_read(st1, sess, key, step.db_number, byte_idx, 1, f)
        val == get_bool(r2.data[1], bit_idx)
    IN  IF ~IsNone(e)
        THEN Compare(r2, raising, key, step, e, IF val THEN 1 ELSE 0, val = Truthy(e))
        ELSE st1

\* ExecByte comparing the byte read back whether or not e is None.
ExecByte_AlwaysChecks(st, sess, raising, key, step, start, w, e, f) ==
  IF ~IntParsable(start) THEN Raise(st, "ValueError")
  ELSE
    LET addr == start.parts[1]
        w1 == IF w.v \notin 0..255 THEN Raise(st, "ValueError")
              ELSE PLCConnection_write(st, sess, key, step.db_number, addr, <<w.v>>, f)
        st1 == IF ~IsNone(w) THEN w1 ELSE st
        r2 == PLCConnection_read(st1, sess, key, step.db_number, addr, 1, f)
        val == r2.data[1]
    IN  Compare(r2, raising, key, step, e, val, val = e.v)

\* dtype == "BYTE"
ExecByte(st, sess, raising, key, step, start, w, e, f) ==
  IF ~IntParsable(start) THEN Raise(st, "ValueError")
  ELSE
    LET addr == start.parts[1]
        w1 == IF w.v \notin 0..255 THEN Raise(st, "ValueError")
              ELSE PLCConnection_write(st, sess, key, step.db_number, addr, <<w.v>>, f)
        st1 == IF ~IsNone(w) THEN w1 ELSE st
        r2 == PLCConnection_read(st1, sess, key, step.db_number, addr, 1, f)
        val == r2.data[1]
    IN  IF ~IsNone(e)
        THEN Compare(r2, raising, key, step, e, val, val = e.v)
        ELSE st1

\* ExecTyped packing every value into a buffer of four bytes.
ExecTyped_WritesWide(st, sess, raising, key, step, dtype, start, w, e, f) ==
  IF dtype \notin TYPE_FUNCS THEN Raise(st, "KeyError")
  ELSE IF ~IntParsable(start) THEN Raise(st, "ValueError")
  ELSE
    LET size == TypeSize(dtype)
        addr == start.parts[1]
        buf == set_func(dtype, w)
        w1 == IF ~buf.ok THEN Raise(st, "struct.error")
              ELSE PLCConnection_write(st, sess, key, step.db_number, addr,
                                       IF size = 2 THEN buf.bytes \o <<0, 0>> ELSE buf.bytes, f)
        st1 == IF ~IsNone(w) THEN w1 ELSE st
        r2 == PLCConnection_read(st1, sess, key, step.db_number, addr, size, f)
        val == get_func(dtype, r2.data)
        ok == IF dtype = "REAL" THEN RealClose(val, e.v) ELSE val = e.v
    IN  IF ~IsNone(e)
        THEN Compare(r2, raising, key, step, e, val, ok)
        ELSE st1

\* ExecTyped passing over a type that TYPE_FUNCS does not hold.
ExecTyped_SkipsUnknown(st, sess, raising, key, step, dtype, start, w, e, f) ==
  IF dtype \notin TYPE_FUNCS THEN st
  ELSE IF ~IntParsable(start) THEN Raise(st, "ValueError")
  ELSE
    LET size == TypeSize(dtype)
        addr == start.parts[1]
        buf == set_func(dtype, w)
        w1 == IF ~buf.ok THEN Raise(st, "struct.error")
              ELSE PLCConnection_write(st, sess, key, step.db_number, addr, buf.bytes, f)
        st1 == IF ~IsNone(w) THEN w1 ELSE st
        r2 == PLCConnection_read(st1, sess, key, step.db_number, addr, size, f)
        val == get_func(dtype, r2.data)
        ok == IF dtype = "REAL" THEN RealClose(val, e.v) ELSE val = e.v
    IN  IF ~IsNone(e)
        THEN Compare(r2, raising, key, step, e, val, ok)
        ELSE st1

\* ExecTyped with the "if e is not None" block ahead of the "if w is not None"
\* block.
ExecTyped_ChecksBeforeWrite(st, sess, raising, key, step, dtype, start, w, e, f) ==
  IF dtype \notin TYPE_FUNCS THEN Raise(st, "KeyError")
  ELSE IF ~IntParsable(start) THEN Raise(st, "ValueError")
  ELSE
    LET size == TypeSize(dtype)
        addr == start.parts[1]
        buf == set_func(dtype, w)
        r2 == PLCConnection_read(st, sess, key, step.db_number, addr, size, f)
        val == get_func(dtype, r2.data)
        ok == IF dtype = "REAL" THEN RealClose(val, e.v) ELSE val = e.v
        st1 == IF ~IsNone(e) THEN Compare(r2, raising, key, step, e, val, ok) ELSE st
        w1 == IF st1.exc = "" /\ ~buf.ok THEN Raise(st1, "struct.error")
              ELSE PLCConnection_write(st1, sess, key, step.db_number, addr, buf.bytes, f)
    IN  IF ~IsNone(w) THEN w1 ELSE st1

\* else: size, set_func, get_func = TYPE_FUNCS[dtype]
ExecTyped(st, sess, raising, key, step, dtype, start, w, e, f) ==
  IF dtype \notin TYPE_FUNCS THEN Raise(st, "KeyError")
  ELSE IF ~IntParsable(start) THEN Raise(st, "ValueError")
  ELSE
    LET size == TypeSize(dtype)
        addr == start.parts[1]
        buf == set_func(dtype, w)
        w1 == IF ~buf.ok THEN Raise(st, "struct.error")
              ELSE PLCConnection_write(st, sess, key, step.db_number, addr, buf.bytes, f)
        st1 == IF ~IsNone(w) THEN w1 ELSE st
        r2 == PLCConnection_read(st1, sess, key, step.db_number, addr, size, f)
        val == get_func(dtype, r2.data)
        ok == IF dtype = "REAL" THEN RealClose(val, e.v) ELSE val = e.v
    IN  IF ~IsNone(e)
        THEN Compare(r2, raising, key, step, e, val, ok)
        ELSE st1

\* One iteration of "for sub_idx, start in enumerate(starts)".
ExecAddress(st, sess, raising, key, step, f) ==
  LET pos == key[4]
      start == Starts(step)[pos]
      w == WriteAt(step, pos)
      e == ExpectedAt(step, pos)
  IN  IF pos > Len(Types(step)) THEN Raise(st, "IndexError")
      ELSE LET dtype == Types(step)[pos]
           IN  CASE dtype = "BOOL" -> ExecBool(st, sess, raising, key, step, start, w, e, f)
                 [] dtype = "BYTE" -> ExecByte(st, sess, raising, key, step, start, w, e, f)
                 [] OTHER -> ExecTyped(st, sess, raising, key, step, dtype, start, w, e, f)

\* The except clause putting the device back to the image it had at the start.
ExceptHandler_RollsBack(st, key, step) ==
  [st EXCEPT !.io = Append(@, Ev("error", key, step.db_number, 0, 0, <<>>, FALSE)),
             !.failures = Append(@, FailureLine("error", key, step, None, 0, st.exc)),
             !.success = FALSE,
             !.mem = [db \in DOMAIN @ |-> [o \in DOMAIN @[db] |->
                        IF db = 1 THEN 0 ELSE @[db][o]]],
             !.exc = ""]

\* The except clause without failures.append.
ExceptHandler_NoEntry(st, key, step) ==
  [st EXCEPT !.io = Append(@, Ev("error", key, step.db_number, 0, 0, <<>>, FALSE)),
             !.success = FALSE,
             !.exc = ""]

\* The except clause without success = False.
ExceptHandler_KeepsSuccess(st, key, step) ==
  [st EXCEPT !.io = Append(@, Ev("error", key, step.db_number, 0, 0, <<>>, FALSE)),
             !.failures = Append(@, FailureLine("error", key, step, None, 0, st.exc)),
             !.exc = ""]

\* except Exception as exc: the error line, the failure entry, success = False.
ExceptHandler(st, key, step) ==
  [st EXCEPT !.io = Append(@, Ev("error", key, step.db_number, 0, 0, <<>>, FALSE)),
             !.failures = Append(@, FailureLine("error", key, step, None, 0, st.exc)),
             !.success = FALSE,
             !.exc = ""]

\* ------------------------------------------------------------ PLCConnection

\* PLCConnection.connect: client.connect(ip, rack, slot), then connected = True.
\* ok: whether the client's connect returns (it raises otherwise).
PLCConnection_connect(c, ok) ==
  IF ok THEN [connected |-> TRUE, session |-> TRUE, raised |-> FALSE,
              calls |-> <<Ev("connect", <<0, 0, 0, 0>>, 0, 0, 0, <<>>, TRUE)>>]
  ELSE [connected |-> c.connected, session |-> FALSE, raised |-> TRUE,
        calls |-> <<Ev("connect", <<0, 0, 0, 0>>, 0, 0, 0, <<>>, FALSE)>>]

\* disconnect without the test of self.connected.
PLCConnection_disconnect_NoGuard(c) ==
  [connected |-> FALSE, session |-> FALSE, raised |-> FALSE,
   calls |-> <<Ev("disconnect", <<0, 0, 0, 0>>, 0, 0, 0, <<>>, TRUE)>>]

\* PLCConnection.disconnect: if connected: client.disconnect(); connected = False.
PLCConnection_disconnect(c) ==
  IF c.connected
  THEN [connected |-> FALSE, session |-> FALSE, raised |-> FALSE,
        calls |-> <<Ev("disconnect", <<0, 0, 0, 0>>, 0, 0, 0, <<>>, TRUE)>>]
  ELSE [connected |-> c.connected, session |-> c.session, raised |-> FALSE,
        calls |-> <<>>]

Conn == [connected |-> connected, session |-> session]

\* ---------------------------------------------------------------- the runners

Variants == {"console", "simple", "gui"}
\* Raising with the runner of the GUI class raising as the module-level one.
Raising_Gui == variant \in {"simple", "gui"}
\* The module-level runner of plc_tester_gui raises on a mismatch and has no
\* try/except around a step; it logs nothing.
Raising == variant = "simple"
Key == <<mi, ti, si, ai>>
Log(ev, key, n, ok) == Ev(ev, key, 0, 0, n, <<>>, ok)

CurModule == plan[mi]
CurTest == CurModule.tests[ti]
CurStep == CurTest.steps[si]

\* RunPlanConnect with the error of connect caught and the plan run anyway.
RunPlanConnect_Swallows ==
  /\ pc = "idle"
  /\ variant \in {"console", "simple"}
  /\ \E ok \in BOOLEAN :
       LET c == PLCConnection_connect(Conn, ok)
       IN  /\ connected' = c.connected
           /\ session' = c.session
           /\ trace' = trace \o c.calls
           /\ exc' = ""
           /\ pc' = "module"
           /\ mi' = 1
  /\ UNCHANGED <<variant, plan, ti, si, ai, mem, success, failures, faults, clicks>>

\* run_plan of plan_runner and of plc_tester_gui: conn = PLCConnection();
\* conn.connect(ip, rack, slot); an error of connect leaves run_plan at once.
RunPlanConnect ==
  /\ pc = "idle"
  /\ variant \in {"console", "simple"}
  /\ \E ok \in BOOLEAN :
       LET c == PLCConnection_connect(Conn, ok)
       IN  /\ connected' = c.connected
           /\ session' = c.session
           /\ trace' = trace \o c.calls
           /\ exc' = IF c.raised THEN "connect" ELSE ""
           /\ pc' = IF c.raised THEN "done" ELSE "module"
           /\ mi' = IF c.raised THEN mi ELSE 1
  /\ UNCHANGED <<variant, plan, ti, si, ai, mem, success, failures, faults, clicks>>

\* PLCTestGUI.run_plan: iterates the modules over self.conn as it is.
GuiRunPlan ==
  /\ pc = "idle"
  /\ variant = "gui"
  /\ pc' = "module"
  /\ mi' = 1
  /\ UNCHANGED <<variant, plan, ti, si, ai, connected, session, mem, success,
                 failures, exc, trace, faults, clicks>>

\* for module in plan.modules: (print / log_msg "Module: ...")
NextModule ==
  /\ pc = "module"
  /\ IF mi > Len(plan)
     THEN /\ pc' = IF variant = "gui" THEN "done" ELSE "finally"
          /\ UNCHANGED <<ti, trace>>
     ELSE /\ pc' = "test"
          /\ ti' = 1
          /\ trace' = IF Raising THEN trace
                      ELSE Append(trace, Log("module", <<mi, 0, 0, 0>>, 0, TRUE))
  /\ UNCHANGED <<variant, plan, mi, si, ai, connected, session, mem, success,
                 failures, exc, faults, clicks>>

\* for test in module.tests: _run_test(conn, test) up to the loop over the steps.
NextTest ==
  /\ pc = "test"
  /\ IF ti > Len(CurModule.tests)
     THEN /\ pc' = "module"
          /\ mi' = mi + 1
          /\ UNCHANGED <<si, success, failures, trace>>
     ELSE /\ pc' = "step"
          /\ si' = 1
          /\ success' = TRUE
          /\ failures' = <<>>
          /\ trace' = IF Raising THEN trace
                      ELSE Append(trace, Log("test", <<mi, ti, 0, 0>>, 0, TRUE))
          /\ UNCHANGED mi
  /\ UNCHANGED <<variant, plan, ti, ai, connected, session, mem, exc, faults, clicks>>

\* NextStep leaving the loop over the steps at the first failure.
NextStep_BreakOnFailure ==
  /\ pc = "step"
  /\ IF si > Len(CurTest.steps) \/ ~success
     THEN /\ pc' = IF Raising THEN "test" ELSE "report"
          /\ ti' = IF Raising THEN ti + 1 ELSE ti
          /\ UNCHANGED <<ai, trace>>
     ELSE /\ pc' = "addr"
          /\ ai' = 1
          /\ trace' = Append(trace, Log("enter", <<mi, ti, si, 0>>, 0, TRUE))
                      \o (IF Raising THEN <<>>
                          ELSE <<Log("step", <<mi, ti, si, 0>>, 0, TRUE)>>)
                      \o (IF ~Truthy(CurStep.delay_ms) THEN <<>>
                          ELSE <<Log("sleep", <<mi, ti, si, 0>>, CurStep.delay_ms.v, TRUE)>>)
          /\ UNCHANGED ti
  /\ UNCHANGED <<variant, plan, mi, si, connected, session, mem, success,
                 failures, exc, faults, clicks>>

\* NextStep with the loop ending one step early.
NextStep_OffByOne ==
  /\ pc = "step"
  /\ IF si >= Len(CurTest.steps)
     THEN /\ pc' = IF Raising THEN "test" ELSE "report"
          /\ ti' = IF Raising THEN ti + 1 ELSE ti
          /\ UNCHANGED <<ai, trace>>
     ELSE /\ pc' = "addr"
          /\ ai' = 1
          /\ trace' = Append(trace, Log("enter", <<mi, ti, si, 0>>, 0, TRUE))
                      \o (IF Raising THEN <<>>
                          ELSE <<Log("step", <<mi, ti, si, 0>>, 0, TRUE)>>)
                      \o (IF ~Truthy(CurStep.delay_ms) THEN <<>>
                          ELSE <<Log("sleep", <<mi, ti, si, 0>>, CurStep.delay_ms.v, TRUE)>>)
          /\ UNCHANGED ti
  /\ UNCHANGED <<variant, plan, mi, si, connected, session, mem, success,
                 failures, exc, faults, clicks>>

\* NextStep with the normalised type list assigned to step.data_type.
NextStep_StoresTypes ==
  /\ pc = "step"
  /\ IF si > Len(CurTest.steps)
     THEN /\ pc' = IF Raising THEN "test" ELSE "report"
          /\ ti' = IF Raising THEN ti + 1 ELSE ti
          /\ UNCHANGED <<ai, trace, plan>>
     ELSE /\ pc' = "addr"
          /\ ai' = 1
          /\ plan' = [plan EXCEPT ![mi].tests[ti].steps[si].data_type =
                                    List(Types(CurStep))]
          /\ trace' = Append(trace, Log("enter", <<mi, ti, si, 0>>, 0, TRUE))
                      \o (IF Raising THEN <<>>
                          ELSE <<Log("step", <<mi, ti, si, 0>>, 0, TRUE)>>)
                      \o (IF ~Truthy(CurStep.delay_ms) THEN <<>>
                          ELSE <<Log("sleep", <<mi, ti, si, 0>>, CurStep.delay_ms.v, TRUE)>>)
          /\ UNCHANGED ti
  /\ UNCHANGED <<variant, mi, si, connected, session, mem, success,
                 failures, exc, faults, clicks>>

\* NextStep with "if step.delay_ms is not None" for "if step.delay_ms".
NextStep_SleepsOnZero ==
  /\ pc = "step"
  /\ IF si > Len(CurTest.steps)
     THEN /\ pc' = IF Raising THEN "test" ELSE "report"
          /\ ti' = IF Raising THEN ti + 1 ELSE ti
          /\ UNCHANGED <<si, ai, trace, success, failures, exc>>
     ELSE IF ~IsNone(CurStep.delay_ms) /\ CurStep.delay_ms.v < 0
     THEN LET key == <<mi, ti, si, 0>>
              st0 == [mem |-> mem, io |-> <<>>, n |-> 0, data |-> <<0, 0, 0, 0>>,
                      exc |-> "ValueError", injected |-> FALSE,
                      success |-> success, failures |-> failures]
              h == IF Raising THEN st0 ELSE ExceptHandler(st0, key, CurStep)
          IN  /\ trace' = Append(trace, Log("enter", key, 0, TRUE))
                          \o (IF Raising THEN <<>> ELSE <<Log("step", key, 0, TRUE)>>)
                          \o <<Log("sleep", key, CurStep.delay_ms.v, FALSE)>>
                          \o h.io
              /\ success' = h.success
              /\ failures' = h.failures
              /\ exc' = h.exc
              /\ pc' = IF Raising THEN "finally" ELSE "step"
              /\ si' = IF Raising THEN si ELSE si + 1
              /\ UNCHANGED <<ai, ti>>
     ELSE /\ pc' = "addr"
          /\ ai' = 1
          /\ trace' = Append(trace, Log("enter", <<mi, ti, si, 0>>, 0, TRUE))
                      \o (IF Raising THEN <<>>
                          ELSE <<Log("step", <<mi, ti, si, 0>>, 0, TRUE)>>)
                      \o (IF IsNone(CurStep.delay_ms) THEN <<>>
                          ELSE <<Log("sleep", <<mi, ti, si, 0>>, CurStep.delay_ms.v, TRUE)>>)
          /\ UNCHANGED <<si, ti, success, failures, exc>>
  /\ UNCHANGED <<variant, plan, mi, connected, session, mem, faults, clicks>>

\* for idx, step in enumerate(test.steps, start=1): the "Step" line, the
\* normalisation of the fields and the delay.  time.sleep raises ValueError for
\* a negative length, after the "Waiting" line and inside the try of the step.
NextStep ==
  /\ pc = "step"
  /\ IF si > Len(CurTest.steps)
     THEN /\ pc' = IF Raising THEN "test" ELSE "report"
          /\ ti' = IF Raising THEN ti + 1 ELSE ti
          /\ UNCHANGED <<si, ai, trace, success, failures, exc>>
     ELSE IF Truthy(CurStep.delay_ms) /\ CurStep.delay_ms.v < 0
     THEN LET key == <<mi, ti, si, 0>>
              st0 == [mem |-> mem, io |-> <<>>, n |-> 0, data |-> <<0, 0, 0, 0>>,
                      exc |-> "ValueError", injected |-> FALSE,
                      success |-> success, failures |-> failures]
              h == IF Raising THEN st0 ELSE ExceptHandler(st0, key, CurStep)
          IN  /\ trace' = Append(trace, Log("enter", key, 0, TRUE))
                          \o (IF Raising THEN <<>> ELSE <<Log("step", key, 0, TRUE)>>)
                          \o <<Log("sleep", key, CurStep.delay_ms.v, FALSE)>>
                          \o h.io
              /\ success' = h.success
              /\ failures' = h.failures
              /\ exc' = h.exc
              /\ pc' = IF Raising THEN "finally" ELSE "step"
              /\ si' = IF Raising THEN si ELSE si + 1
              /\ UNCHANGED <<ai, ti>>
     ELSE /\ pc' = "addr"
          /\ ai' = 1
          /\ trace' = Append(trace, Log("enter", <<mi, ti, si, 0>>, 0, TRUE))
                      \o (IF Raising THEN <<>>
                          ELSE <<Log("step", <<mi, ti, si, 0>>, 0, TRUE)>>)
                      \o (IF ~Truthy(CurStep.delay_ms) THEN <<>>
                          ELSE <<Log("sleep", <<mi, ti, si, 0>>, CurStep.delay_ms.v, TRUE)>>)
          /\ UNCHANGED <<si, ti, success, failures, exc>>
  /\ UNCHANGED <<variant, plan, mi, connected, session, mem, faults, clicks>>

\* DoAddress with the try/except around one address instead of one step: after
\* the except clause the loop goes on with the next address.
DoAddress_NextAddress ==
  /\ pc = "addr"
  /\ IF ai > Len(Starts(CurStep))
     THEN /\ pc' = "step"
          /\ si' = si + 1
          /\ UNCHANGED <<ai, mem, success, failures, exc, trace, faults, clicks>>
     ELSE \E f \in 0..3 :
            LET st0 == [mem |-> mem, io |-> <<>>, n |-> 0, data |-> <<0, 0, 0, 0>>,
                        exc |-> "", injected |-> FALSE,
                        success |-> success, failures |-> failures]
                r == ExecAddress(st0, session, Raising, Key, CurStep, f)
                h == IF r.exc # "" /\ ~Raising THEN ExceptHandler(r, Key, CurStep) ELSE r
            IN  /\ (f = 0 \/ (r.injected /\ faults < MaxFaults))
                /\ mem' = h.mem
                /\ trace' = trace \o h.io
                /\ success' = h.success
                /\ failures' = h.failures
                /\ exc' = h.exc
                /\ faults' = IF r.injected THEN faults + 1 ELSE faults
                /\ pc' = IF r.exc # "" /\ Raising THEN "finally" ELSE "addr"
                /\ ai' = IF r.exc # "" /\ Raising THEN ai ELSE ai + 1
                /\ si' = si
  /\ UNCHANGED <<variant, plan, mi, ti, connected, session, clicks>>

\* DoAddress with a break out of the loop over the addresses after a mismatch.
DoAddress_LeavesOnMismatch ==
  /\ pc = "addr"
  /\ IF ai > Len(Starts(CurStep))
     THEN /\ pc' = "step"
          /\ si' = si + 1
          /\ UNCHANGED <<ai, mem, success, failures, exc, trace, faults, clicks>>
     ELSE \E f \in 0..3 :
            LET st0 == [mem |-> mem, io |-> <<>>, n |-> 0, data |-> <<0, 0, 0, 0>>,
                        exc |-> "", injected |-> FALSE,
                        success |-> success, failures |-> failures]
                r == ExecAddress(st0, session, Raising, Key, CurStep, f)
                h == IF r.exc # "" /\ ~Raising THEN ExceptHandler(r, Key, CurStep) ELSE r
            IN  /\ (f = 0 \/ (r.injected /\ faults < MaxFaults))
                /\ mem' = h.mem
                /\ trace' = trace \o h.io
                /\ success' = h.success
                /\ failures' = h.failures
                /\ exc' = h.exc
                /\ faults' = IF r.injected THEN faults + 1 ELSE faults
                /\ pc' = IF r.exc = "" /\ Len(h.failures) = Len(failures) THEN "addr"
                         ELSE IF Raising THEN "finally" ELSE "step"
                /\ ai' = IF r.exc = "" /\ Len(h.failures) = Len(failures) THEN ai + 1 ELSE ai
                /\ si' = IF (r.exc # "" \/ Len(h.failures) # Len(failures)) /\ ~Raising
                         THEN si + 1 ELSE si
  /\ UNCHANGED <<variant, plan, mi, ti, connected, session, clicks>>

\* One address of the step, with the except clause of the aggregating runners
\* when it raises; the module-level runner lets the exception leave _run_test.
DoAddress ==
  /\ pc = "addr"
  /\ IF ai > Len(Starts(CurStep))
     THEN /\ pc' = "step"
          /\ si' = si + 1
          /\ UNCHANGED <<ai, mem, success, failures, exc, trace, faults, clicks>>
     ELSE \E f \in 0..3 :
            LET st0 == [mem |-> mem, io |-> <<>>, n |-> 0, data |-> <<0, 0, 0, 0>>,
                        exc |-> "", injected |-> FALSE,
                        success |-> success, failures |-> failures]
                r == ExecAddress(st0, session, Raising, Key, CurStep, f)
                h == IF r.exc # "" /\ ~Raising THEN ExceptHandler(r, Key, CurStep) ELSE r
            IN  /\ (f = 0 \/ (r.injected /\ faults < MaxFaults))
                /\ mem' = h.mem
                /\ trace' = trace \o h.io
                /\ success' = h.success
                /\ failures' = h.failures
                /\ exc' = h.exc
                /\ faults' = IF r.injected THEN faults + 1 ELSE faults
                /\ pc' = IF r.exc = "" THEN "addr"
                         ELSE IF Raising THEN "finally" ELSE "step"
                /\ ai' = IF r.exc = "" THEN ai + 1 ELSE ai
                /\ si' = IF r.exc # "" /\ ~Raising THEN si + 1 ELSE si
  /\ UNCHANGED <<variant, plan, mi, ti, connected, session, clicks>>

\* Report printing the Result line only under "if failures".
Report_OnlyOnFailure ==
  /\ pc = "report"
  /\ trace' = IF failures = <<>> THEN trace
              ELSE Append(trace, Log("result", <<mi, ti, 0, 0>>, Len(failures), success))
                     \o [j \in 1..Len(failures) |-> Log("failure", <<mi, ti, failures[j].step, failures[j].pos>>, j, FALSE)]
  /\ ti' = ti + 1
  /\ pc' = "test"
  /\ UNCHANGED <<variant, plan, mi, si, ai, connected, session, mem, success,
                 failures, exc, faults, clicks>>

\* The end of the aggregating _run_test: the Result line and the Failure lines.
Report ==
  /\ pc = "report"
  /\ trace' = Append(trace, Log("result", <<mi, ti, 0, 0>>, Len(failures), success))
                \o [j \in 1..Len(failures) |-> Log("failure", <<mi, ti, failures[j].step, failures[j].pos>>, j, FALSE)]
  /\ ti' = ti + 1
  /\ pc' = "test"
  /\ UNCHANGED <<variant, plan, mi, si, ai, connected, session, mem, success,
                 failures, exc, faults, clicks>>

\* Finally without the call of disconnect.
Finally_NoDisconnect ==
  /\ pc = "finally"
  /\ pc' = "done"
  /\ UNCHANGED <<variant, plan, mi, ti, si, ai, connected, session, mem, success,
                 failures, exc, trace, faults, clicks>>

\* finally: conn.disconnect()
Finally ==
  /\ pc = "finally"
  /\ LET c == PLCConnection_disconnect(Conn)
     IN  /\ connected' = c.connected
         /\ session' = c.session
         /\ trace' = trace \o c.calls
  /\ pc' = "done"
  /\ UNCHANGED <<variant, plan, mi, ti, si, ai, mem, success, failures, exc, faults, clicks>>

\* PLCTestGUI.connect_plc: conn.connect(...), an error shown in a message box.
ConnectPlc ==
  /\ variant = "gui"
  /\ pc \in {"idle", "done"}
  /\ clicks < MaxClicks
  /\ clicks' = clicks + 1
  /\ \E ok \in BOOLEAN :
       LET c == PLCConnection_connect(Conn, ok)
       IN  /\ connected' = c.connected
           /\ session' = c.session
           /\ trace' = trace \o c.calls
  /\ UNCHANGED <<variant, plan, pc, mi, ti, si, ai, mem, success, failures, exc, faults>>

\* PLCTestGUI.disconnect_plc: conn.disconnect()
DisconnectPlc ==
  /\ variant = "gui"
  /\ pc \in {"idle", "done"}
  /\ clicks < MaxClicks
  /\ clicks' = clicks + 1
  /\ LET c == PLCConnection_disconnect(Conn)
     IN  /\ connected' = c.connected
         /\ session' = c.session
         /\ trace' = trace \o c.calls
  /\ UNCHANGED <<variant, plan, pc, mi, ti, si, ai, mem, success, failures, exc, faults>>

\* A caller that holds one PLCConnection and calls its methods directly, in
\* any order; clicks counts its calls.
ApiConnect ==
  /\ pc = "api"
  /\ clicks < MaxCalls
  /\ clicks' = clicks + 1
  /\ \E ok \in BOOLEAN :
       LET c == PLCConnection_connect(Conn, ok)
       IN  /\ connected' = c.connected
           /\ session' = c.session
           /\ trace' = trace \o c.calls
           /\ exc' = IF c.raised THEN "connect" ELSE ""
  /\ UNCHANGED <<variant, plan, pc, mi, ti, si, ai, mem, success, failures, faults>>

ApiDisconnect ==
  /\ pc = "api"
  /\ clicks < MaxCalls
  /\ clicks' = clicks + 1
  /\ LET c == PLCConnection_disconnect(Conn)
     IN  /\ connected' = c.connected
         /\ session' = c.session
         /\ trace' = trace \o c.calls
         /\ exc' = IF c.raised THEN "disconnect" ELSE ""
  /\ UNCHANGED <<variant, plan, pc, mi, ti, si, ai, mem, success, failures, faults>>

\* ------------------------------------------------------------ plans and device

\* The device at the start of a run: block 1 holds big-endian 0x000A at offset
\* 0 and 0xFFFFFFFB at offset 4, block 2 holds 0x5A in every byte.
InitMem ==
  [db \in {1, 2} |->
    [o \in 0..(MemSize - 1) |->
      IF db = 2 THEN 90
      ELSE CASE o = 1 -> 10
             [] o \in {4, 5, 6} -> 255
             [] o = 7 -> 251
             [] OTHER -> 0]]

StepSetBit ==
  TestStep("set bit", 2, Scalar(BitAddr(5, 2)), Scalar("BOOL"),
           Scalar(PyBool(TRUE)), Scalar(PyBool(TRUE)), None)
StepCheckBit ==
  TestStep("check bit", 2, Scalar(BitAddr(4, 0)), Scalar("BOOL"),
           Scalar(None), Scalar(PyBool(TRUE)), None)
StepWriteByte ==
  TestStep("write byte", 1, Scalar(IntAddr(2)), Scalar("BYTE"),
           Scalar(PyInt(200)), Scalar(None), None)
StepIntMismatch ==
  TestStep("int", 1, Scalar(IntAddr(0)), Scalar("INT"),
           Scalar(PyInt(7)), Scalar(PyInt(8)), None)
StepMulti ==
  TestStep("multi", 1, List(<<IntAddr(0), IntAddr(4)>>), List(<<"INT", "DINT">>),
           Scalar(None), List(<<PyInt(10), PyInt(-5)>>), None)
StepBroadcast ==
  TestStep("words", 1, List(<<IntAddr(0), IntAddr(2)>>), Scalar("WORD"),
           List(<<PyInt(1), PyInt(2)>>), List(<<PyInt(9), PyInt(2)>>), PyInt(0))
StepUnknownType ==
  TestStep("bad type", 1, Scalar(IntAddr(0)), Scalar("LREAL"),
           Scalar(PyInt(1)), Scalar(None), None)
StepBadAddress ==
  TestStep("bad address", 2, Scalar(IntAddr(4)), Scalar("BOOL"),
           Scalar(None), Scalar(PyBool(FALSE)), None)
StepReal ==
  TestStep("real", 1, Scalar(IntAddr(4)), Scalar("REAL"),
           Scalar(PyInt(2)), Scalar(PyInt(2)), PyInt(50))
StepShortTypes ==
  TestStep("short types", 1, List(<<IntAddr(0), IntAddr(2), IntAddr(4)>>),
           List(<<"INT", "WORD">>), List(<<PyInt(3), PyInt(4), PyInt(5)>>),
           List(<<PyInt(0)>>), None)
StepOutside ==
  TestStep("outside", 1, Scalar(IntAddr(100)), Scalar("BYTE"),
           Scalar(None), Scalar(PyInt(0)), None)
StepMixed ==
  TestStep("mixed", 2, List(<<BitAddr(0, 1), IntAddr(1), IntAddr(2)>>),
           List(<<"BOOL", "BYTE", "DWORD">>),
           List(<<PyBool(FALSE), None, PyInt(66051)>>),
           List(<<None, PyInt(90)>>), None)

StepLateBadType ==
  TestStep("late bad type", 1, List(<<IntAddr(0), IntAddr(2), IntAddr(4)>>),
           List(<<"WORD", "LREAL", "WORD">>), List(<<PyInt(1), PyInt(2), PyInt(3)>>),
           List(<<PyInt(9), None, PyInt(3)>>), None)
StepNamedBit ==
  TestStep("named bit", 2, List(<<BitAddr(1, 1), BadAddr, BitAddr(3, 3)>>), Scalar("BOOL"),
           List(<<PyBool(TRUE), PyBool(TRUE), PyBool(TRUE)>>),
           List(<<PyBool(TRUE), PyBool(TRUE), PyBool(TRUE)>>), None)

FirstSteps == {StepIntMismatch, StepWriteByte}
MidSteps == {StepSetBit, StepCheckBit, StepWriteByte, StepIntMismatch, StepMulti,
             StepBroadcast, StepUnknownType, StepBadAddress, StepReal,
             StepShortTypes, StepOutside, StepMixed}
LastSteps == {StepMulti, StepSetBit}

\* Two modules; the first test has three steps.
PlanOf(s1, s2, s3) ==
  << ModulePlan("A", << TestCase("A1", <<s1, s2, s3>>), TestCase("A2", <<StepMulti>>) >>),
     ModulePlan("B", << TestCase("B1", <<StepSetBit>>) >>) >>

Plans ==
  { PlanOf(s1, s2, s3) : s1 \in FirstSteps, s2 \in MidSteps, s3 \in LastSteps }
  \cup { <<>>,
         << ModulePlan("E", <<>>), ModulePlan("F", << TestCase("F1", <<>>) >>) >> }

\* The state before run_plan is called: a fresh PLCConnection, nothing run.
\* f is the number of transport errors the device has already spent.
Start(v, p, m, f) ==
  /\ variant = v
  /\ plan = p
  /\ pc = "idle"
  /\ mi = 0 /\ ti = 0 /\ si = 0 /\ ai = 0
  /\ connected = FALSE
  /\ session = FALSE
  /\ mem = m
  /\ success = TRUE
  /\ failures = <<>>
  /\ exc = ""
  /\ trace = <<>>
  /\ faults = f
  /\ clicks = 0

Init == \E v \in Variants, p \in Plans : Start(v, p, InitMem, 0)

Next ==
  \/ RunPlanConnect
  \/ GuiRunPlan
  \/ ConnectPlc
  \/ DisconnectPlc
  \/ NextModule
  \/ NextTest
  \/ NextStep
  \/ DoAddress
  \/ Report
  \/ Finally

Spec == Init /\ [][Next]_vars

\* ------------------------------------------------- plans with a faulty step

\* The plans whose second step has an unknown type tag or a BOOL address that
\* is not "int.int", alone or after a good address.
CfgSteps == {StepUnknownType, StepBadAddress, StepLateBadType, StepNamedBit}
CfgPlans == { PlanOf(s1, s2, s3) : s1 \in FirstSteps, s2 \in CfgSteps, s3 \in LastSteps }

InitCfg == \E v \in Variants, p \in CfgPlans : Start(v, p, InitMem, 0)

SpecCfg == InitCfg /\ [][Next]_vars

\* ------------------------------------------ a step of several addresses first

StepOneTag ==
  TestStep("one tag", 1, List(<<IntAddr(1), IntAddr(2), IntAddr(3)>>), List(<<"BYTE">>),
           List(<<PyInt(1), PyInt(2), PyInt(3)>>),
           List(<<PyInt(1), PyInt(9), PyInt(3)>>), PyInt(20))
StepShortValues ==
  TestStep("short values", 1, List(<<IntAddr(0), IntAddr(2), IntAddr(4)>>), Scalar("INT"),
           List(<<PyInt(5)>>), List(<<PyInt(5), PyInt(6)>>), None)
StepScalarValues ==
  TestStep("scalar values", 1, List(<<IntAddr(0), IntAddr(2), IntAddr(4)>>),
           List(<<"WORD", "WORD", "WORD">>), Scalar(PyInt(7)), Scalar(PyInt(7)), PyInt(0))
StepLongValues ==
  TestStep("long values", 2, List(<<IntAddr(0), IntAddr(1)>>), Scalar("BYTE"),
           List(<<PyInt(1), PyInt(2), PyInt(3)>>),
           List(<<PyInt(1), PyInt(2), PyInt(3), PyInt(4)>>), PyInt(5))
StepLateOutside ==
  TestStep("late outside", 1, List(<<IntAddr(0), IntAddr(100), IntAddr(4)>>), Scalar("INT"),
           List(<<PyInt(1), PyInt(2), PyInt(3)>>),
           List(<<PyInt(8), PyInt(2), PyInt(3)>>), None)
StepNegativeDelay ==
  TestStep("negative delay", 1, List(<<IntAddr(0), IntAddr(2)>>), Scalar("WORD"),
           List(<<PyInt(1), PyInt(2)>>), List(<<PyInt(1), PyInt(2)>>), PyInt(-5))
StepTwoMismatches ==
  TestStep("two mismatches", 1, List(<<IntAddr(0), IntAddr(1), IntAddr(2)>>), Scalar("BYTE"),
           List(<<PyInt(1), PyInt(2), PyInt(3)>>),
           List(<<PyInt(9), PyInt(2), PyInt(8)>>), None)
StepPause ==
  TestStep("pause", 2, Scalar(BitAddr(5, 2)), Scalar("BOOL"),
           Scalar(PyBool(TRUE)), Scalar(PyBool(TRUE)), PyInt(30))

AddrSteps ==
  {StepMulti, StepBroadcast, StepShortTypes, StepMixed, StepLateBadType, StepNamedBit,
   StepOneTag, StepShortValues, StepScalarValues, StepLongValues, StepLateOutside,
   StepNegativeDelay, StepTwoMismatches}

\* One test: a step of several addresses, then a step of one address.
AddrPlan(s1, s2) == << ModulePlan("M", << TestCase("T", <<s1, s2>>) >>) >>

InitAddr ==
  \E v \in Variants, s1 \in AddrSteps, s2 \in {StepSetBit, StepPause} :
    Start(v, AddrPlan(s1, s2), InitMem, 0)

SpecAddr == InitAddr /\ [][Next]_vars

\* ------------------------------------------------ one step, any device content

\* A plan of one test of one step.
SinglePlan(step) == << ModulePlan("S", << TestCase("S1", <<step>>) >>) >>

AllBytes(x) == [db \in {1, 2} |-> [o \in 0..(MemSize - 1) |-> x]]
MemChoices == {InitMem, AllBytes(0), AllBytes(127)}

DataTypes == {"BOOL", "BYTE", "INT", "DINT", "WORD", "DWORD", "REAL"}
CaseValues(dtype) ==
  IF dtype = "BOOL" THEN {None, PyBool(TRUE), PyBool(FALSE)}
  ELSE {None, PyInt(0), PyInt(90)}
\* One address of block 2 with one type, a write value and an expected value.
TypedCase(dtype, w, e) ==
  TestStep("case", 2, Scalar(IF dtype = "BOOL" THEN BitAddr(4, 2) ELSE IntAddr(4)),
           Scalar(dtype), Scalar(w), Scalar(e), None)
StepCases ==
  { TypedCase(c[1], c[2], c[3]) :
      c \in UNION { {dt} \X CaseValues(dt) \X CaseValues(dt) : dt \in DataTypes } }
  \cup {StepMulti, StepBroadcast, StepShortTypes, StepMixed, StepUnknownType}

InitStep ==
  \E v \in Variants, step \in StepCases, m \in MemChoices :
    Start(v, SinglePlan(step), m, 0)

SpecStep == InitStep /\ [][Next]_vars

\* ------------------------------------------- values that are false in Python

AbsentTypes == {"BOOL", "BYTE", "INT", "REAL"}
\* None and the value of the type that bool() takes for False.
ZeroValues(dtype) == {None, IF dtype = "BOOL" THEN PyBool(FALSE) ELSE PyInt(0)}
\* Two addresses of block 2 with lists of write and expected values.
ListCase(dtype, ws, es, delay) ==
  TestStep("list", 2,
           List(IF dtype = "BOOL" THEN <<BitAddr(4, 2), BitAddr(5, 0)>>
                ELSE <<IntAddr(0), IntAddr(4)>>),
           Scalar(dtype), List(ws), List(es), delay)
AbsentCases ==
  UNION { { ListCase(dt, <<w1, w2>>, <<e1, e2>>, dl) :
              w1 \in ZeroValues(dt), w2 \in ZeroValues(dt),
              e1 \in ZeroValues(dt), e2 \in ZeroValues(dt),
              dl \in {None, PyInt(0)} }
          \cup { TypedCase(dt, w, e) : w \in ZeroValues(dt), e \in ZeroValues(dt) } :
          dt \in AbsentTypes }

InitAbsent ==
  \E v \in Variants, step \in AbsentCases, m \in {AllBytes(0), AllBytes(127)} :
    Start(v, SinglePlan(step), m, 0)

SpecAbsent == InitAbsent /\ [][Next]_vars

\* ---------------------------------------------- BYTE steps, any integer value

ByteValues == {-1, 0, 90, 200, 255, 256, 300}
\* One BYTE address with a write value, an expected value, or both.
ByteCases ==
  { TypedCase("BYTE", w, e) :
      w \in {None} \cup {PyInt(v) : v \in ByteValues},
      e \in {None} \cup {PyInt(v) : v \in ByteValues} }

InitByte ==
  \E v \in Variants, step \in ByteCases : Start(v, SinglePlan(step), InitMem, 0)

SpecByte == InitByte /\ [][Next]_vars

\* ------------------------------------------------ BOOL writes, every byte value

\* Block 2 with byte 5 holding x.
MemWithByte(x) ==
  [db \in {1, 2} |-> [o \in 0..(MemSize - 1) |-> IF db = 2 /\ o = 5 THEN x ELSE InitMem[db][o]]]
\* Write bit b of byte 5 of block 2 to v, then check it.
BoolCase(b, v) ==
  TestStep("bool", 2, Scalar(BitAddr(5, b)), Scalar("BOOL"),
           Scalar(PyBool(v)), Scalar(PyBool(v)), None)

\* Every byte value and bit index under the console runner with a device that
\* raises nothing on its own; three byte values under every runner.
InitBool ==
  \/ \E x \in 0..255, b \in 0..7, v \in BOOLEAN :
       Start("console", SinglePlan(BoolCase(b, v)), MemWithByte(x), MaxFaults)
  \/ \E vr \in Variants, x \in {0, 90, 255}, b \in {0, 3, 7}, v \in BOOLEAN :
       Start(vr, SinglePlan(BoolCase(b, v)), MemWithByte(x), 0)

SpecBool == InitBool /\ [][Next]_vars

\* ------------------------------------- one comparison, chosen device bytes

\* The device with the four bytes bs at offsets 4..7 of block 2.
MemWithBytes(bs) ==
  [db \in {1, 2} |->
    [o \in 0..(MemSize - 1) |-> IF db = 2 /\ o \in 4..7 THEN bs[o - 3] ELSE 0]]

\* Singles at and around 2.0 (0x40000000): 4 and 5 units of 2^-22 above it,
\* 8 and 9 units of 2^-23 below it; -2.0 and its neighbour; 0.0 and -0.0.
RealBytes ==
  { <<64, 0, 0, 0>>, <<64, 0, 0, 4>>, <<64, 0, 0, 5>>,
    <<63, 255, 255, 248>>, <<63, 255, 255, 247>>,
    <<192, 0, 0, 0>>, <<192, 0, 0, 4>>, <<0, 0, 0, 0>>, <<128, 0, 0, 0>> }
IntBytes ==
  { <<0, 10, 0, 0>>, <<0, 0, 0, 10>>, <<0, 1, 2, 3>>, <<4, 0, 0, 0>>,
    <<0, 0, 0, 0>>, <<127, 255, 255, 255>> }
SignedBytes == { <<255, 246, 0, 0>>, <<255, 255, 255, 251>>, <<200, 0, 0, 0>> }
CmpBytes(dtype) ==
  CASE dtype = "REAL" -> RealBytes
    [] dtype = "DWORD" -> IntBytes
    [] OTHER -> IntBytes \cup SignedBytes
CmpValues(dtype) ==
  CASE dtype = "BOOL" -> {PyBool(TRUE), PyBool(FALSE), PyInt(2), PyInt(0)}
    [] dtype = "BYTE" -> {PyInt(200), PyInt(4), PyInt(0), PyInt(-56)}
    [] dtype = "INT" -> {PyInt(10), PyInt(-10), PyInt(0), PyInt(65526)}
    [] dtype = "WORD" -> {PyInt(10), PyInt(65526), PyInt(-10)}
    [] dtype = "DINT" -> {PyInt(-5), PyInt(10), PyInt(66051), PyInt(2147483647)}
    [] dtype = "DWORD" -> {PyInt(10), PyInt(66051), PyInt(2147483647)}
    [] dtype = "REAL" -> {PyInt(2), PyInt(-2), PyInt(0)}

\* One step that only checks one address, against chosen bytes.
InitCmp ==
  \E v \in Variants, dtype \in DataTypes :
    \E e \in CmpValues(dtype), bs \in CmpBytes(dtype) :
      Start(v, SinglePlan(TypedCase(dtype, None, e)), MemWithBytes(bs), 0)

SpecCmp == InitCmp /\ [][Next]_vars

\* ------------------------------------------ one value written and read back

\* The ends of each type's range, the values around a change of byte or of
\* sign, and every value of BYTE.  (DWORD up to 2^31 - 1, the largest integer
\* of the model checker.)
RoundValues(dtype) ==
  CASE dtype = "BYTE" -> 0..255
    [] dtype = "INT" -> {-32768, -32767, -257, -256, -255, -1, 0, 1, 127, 128,
                         255, 256, 258, 32766, 32767}
    [] dtype = "WORD" -> {0, 1, 255, 256, 258, 32767, 32768, 65534, 65535}
    [] dtype = "DINT" -> {-2147483647 - 1, -2147483647, -65537, -65536, -1, 0, 1,
                          255, 256, 65535, 65536, 16909060, 2147483646, 2147483647}
    [] dtype = "DWORD" -> {0, 1, 255, 256, 65535, 65536, 16909060,
                           2147483646, 2147483647}
RoundTypes == {"BYTE", "INT", "WORD", "DINT", "DWORD"}

\* One step with write = v and expected = v at one address.
InitRound ==
  \E vr \in Variants, dtype \in RoundTypes, m \in {InitMem, AllBytes(127)} :
    \E v \in RoundValues(dtype) :
      Start(vr, SinglePlan(TypedCase(dtype, PyInt(v), PyInt(v))), m, 0)

SpecRound == InitRound /\ [][Next]_vars

\* ------------------------------------------- a PLCConnection called directly

\* conn = PLCConnection(): not connected, no session.
InitApi ==
  /\ variant = "console"
  /\ plan = <<>>
  /\ pc = "api"
  /\ mi = 0 /\ ti = 0 /\ si = 0 /\ ai = 0
  /\ connected = FALSE
  /\ session = FALSE
  /\ mem = InitMem
  /\ success = TRUE
  /\ failures = <<>>
  /\ exc = ""
  /\ trace = <<>>
  /\ faults = 0
  /\ clicks = 0

NextApi == ApiConnect \/ ApiDisconnect

SpecApi == InitApi /\ [][NextApi]_vars

\* ---------------------------------------------------- importing the module

\* What "import snap7" finds: the driver, no such module, or a driver whose
\* import fails.
Snap7States == {"installed", "missing", "broken"}

\* import plc_tester_gui: "import snap7" is a plain import, so its exception
\* leaves the import of the module.
ImportModule ==
  /\ pc = "import"
  /\ \E snap7 \in Snap7States :
       /\ exc' = CASE snap7 = "installed" -> ""
                   [] snap7 = "missing" -> "ModuleNotFoundError"
                   [] snap7 = "broken" -> "OSError"
       /\ pc' = IF snap7 = "installed" THEN "imported" ELSE "done"
       /\ trace' = Append(trace, [ev |-> "import", snap7 |-> snap7,
                                  ok |-> snap7 = "installed"])
  /\ UNCHANGED <<variant, plan, mi, ti, si, ai, connected, session, mem, success,
                 failures, faults, clicks>>

\* conn = PLCConnection(): snap7.client.Client() and connected = False.
NewConnection ==
  /\ pc = "imported"
  /\ pc' = "api"
  /\ connected' = FALSE
  /\ trace' = Append(trace, [ev |-> "new", ok |-> TRUE])
  /\ UNCHANGED <<variant, plan, mi, ti, si, ai, session, mem, success, failures,
                 exc, faults, clicks>>

InitImport ==
  /\ variant = "console"
  /\ plan = <<>>
  /\ pc = "import"
  /\ mi = 0 /\ ti = 0 /\ si = 0 /\ ai = 0
  /\ connected = FALSE
  /\ session = FALSE
  /\ mem = InitMem
  /\ success = TRUE
  /\ failures = <<>>
  /\ exc = ""
  /\ trace = <<>>
  /\ faults = 0
  /\ clicks = 0

NextImport == ImportModule \/ NewConnection \/ ApiConnect \/ ApiDisconnect

SpecImport == InitImport /\ [][NextImport]_vars

\* ------------------------------------------- reads with a memory-area argument

\* conn.read(db, start, size) called directly by the holder of the connection.
ApiRead ==
  /\ pc = "api"
  /\ clicks < MaxCalls
  /\ clicks' = clicks + 1
  /\ \E size \in {1, 2} :
       LET st0 == [mem |-> mem, io |-> <<>>, n |-> 0, data |-> <<0, 0, 0, 0>>,
                   exc |-> "", injected |-> FALSE,
                   success |-> success, failures |-> failures]
           r == PLCConnection_read(st0, session, <<0, 0, 0, 0>>, 1, 0, size, 0)
       IN  /\ trace' = Append(trace, [ev |-> "call", method |-> "read", area |-> "",
                                      size |-> size, ok |-> TRUE]) \o r.io
           /\ exc' = r.exc
  /\ UNCHANGED <<variant, plan, pc, mi, ti, si, ai, connected, session, mem, success,
                 failures, faults>>

\* conn.read(db, start, size, "M"): read takes db, start and size only, so the
\* call raises TypeError before the body runs and the client is not called.
ApiReadArea ==
  /\ pc = "api"
  /\ clicks < MaxCalls
  /\ clicks' = clicks + 1
  /\ trace' = Append(trace, [ev |-> "call", method |-> "read", area |-> "M",
                             size |-> 1, ok |-> FALSE])
  /\ exc' = "TypeError"
  /\ UNCHANGED <<variant, plan, pc, mi, ti, si, ai, connected, session, mem, success,
                 failures, faults>>

NextArea == ApiConnect \/ ApiDisconnect \/ ApiRead \/ ApiReadArea

SpecArea == InitApi /\ [][NextArea]_vars

\* ------------------------------------------------------- plan persistence

\* A dict is a function from its keys; d.get(k, []) of the code.
Get(d, k) == IF k \in DOMAIN d THEN d[k] ELSE <<>>

StepFields ==
  {"description", "db_number", "start", "data_type", "write", "expected", "delay_ms"}
RequiredStepFields == {"description", "db_number", "start", "data_type"}

\* dataclasses.asdict of a TestStep, a TestCase and a ModulePlan.
AsdictStep(s) ==
  [description |-> s.description, db_number |-> s.db_number, start |-> s.start,
   data_type |-> s.data_type, write |-> s.write, expected |-> s.expected,
   delay_ms |-> s.delay_ms]
AsdictTest(t) ==
  [name |-> t.name, steps |-> [i \in 1..Len(t.steps) |-> AsdictStep(t.steps[i])]]
AsdictModule(m) ==
  [name |-> m.name, tests |-> [i \in 1..Len(m.tests) |-> AsdictTest(m.tests[i])]]

\* TestPlan.to_dict
to_dict(p) == [modules |-> [i \in 1..Len(p) |-> AsdictModule(p[i])]]

\* The first exception among the results rs, "" when there is none.
FirstExc(rs) ==
  IF \A i \in DOMAIN rs : rs[i].exc = "" THEN ""
  ELSE rs[CHOOSE i \in DOMAIN rs :
            rs[i].exc # "" /\ \A j \in DOMAIN rs : j < i => rs[j].exc = ""].exc

\* TestStep(**s): an unexpected keyword or a missing required one is a
\* TypeError; write, expected and delay_ms default to None.
FromStep(s) ==
  IF ~(DOMAIN s \subseteq StepFields /\ RequiredStepFields \subseteq DOMAIN s)
  THEN [exc |-> "TypeError", v |-> <<>>]
  ELSE [exc |-> "",
        v |-> TestStep(s.description, s.db_number, s.start, s.data_type,
                       IF "write" \in DOMAIN s THEN s.write ELSE Scalar(None),
                       IF "expected" \in DOMAIN s THEN s.expected ELSE Scalar(None),
                       IF "delay_ms" \in DOMAIN s THEN s.delay_ms ELSE None)]

\* The body of "for t in m.get("tests", [])": the steps, then t["name"].
FromTest(t) ==
  LET steps == Get(t, "steps")
      rs == [i \in 1..Len(steps) |-> FromStep(steps[i])]
  IN  IF FirstExc(rs) # "" THEN [exc |-> FirstExc(rs), v |-> <<>>]
      ELSE IF "name" \notin DOMAIN t THEN [exc |-> "KeyError", v |-> <<>>]
      ELSE [exc |-> "", v |-> TestCase(t.name, [i \in 1..Len(steps) |-> rs[i].v])]

\* The body of "for m in data.get("modules", [])": the tests, then m["name"].
FromModule(m) ==
  LET tests == Get(m, "tests")
      rs == [i \in 1..Len(tests) |-> FromTest(tests[i])]
  IN  IF FirstExc(rs) # "" THEN [exc |-> FirstExc(rs), v |-> <<>>]
      ELSE IF "name" \notin DOMAIN m THEN [exc |-> "KeyError", v |-> <<>>]
      ELSE [exc |-> "", v |-> ModulePlan(m.name, [i \in 1..Len(tests) |-> rs[i].v])]

\* TestPlan.from_dict
from_dict(data) ==
  LET modules == Get(data, "modules")
      rs == [i \in 1..Len(modules) |-> FromModule(modules[i])]
  IN  IF FirstExc(rs) # "" THEN [exc |-> FirstExc(rs), v |-> <<>>]
      ELSE [exc |-> "", v |-> [i \in 1..Len(modules) |-> rs[i].v]]

\* Documents a user may open.
DocStep == AsdictStep(StepBroadcast)
DocStepShort ==
  [description |-> "short", db_number |-> 1, start |-> Scalar(IntAddr(0)),
   data_type |-> Scalar("INT")]
DocStepNote ==
  [description |-> "noted", db_number |-> 1, start |-> Scalar(IntAddr(0)),
   data_type |-> Scalar("INT"), note |-> "why"]
DocStepNoType ==
  [description |-> "untyped", db_number |-> 1, start |-> Scalar(IntAddr(0))]
DocOf(steps) ==
  [modules |-> << [name |-> "IO", tests |-> << [name |-> "t1", steps |-> steps] >>] >>]
Documents ==
  { DocOf(<<DocStep>>), DocOf(<<DocStepShort, DocStep>>), DocOf(<<DocStep, DocStepNote>>),
    DocOf(<<DocStepNoType>>),
    [modules |-> <<>>],
    [modules |-> << [name |-> "IO"] >>],
    [modules |-> << [name |-> "IO", tests |-> << [name |-> "t1"] >>] >>],
    [modules |-> << [tests |-> <<>>] >>],
    [modules |-> << [name |-> "IO", tests |-> << [steps |-> <<DocStep>>] >>] >>],
    [version |-> 2, modules |-> <<>>],
    [modules |-> << [name |-> "IO", comment |-> "rack 2", tests |-> <<>>] >>],
    [modules |-> << [name |-> "IO",
                     tests |-> << [name |-> "t1", tags |-> "slow", steps |-> <<>>] >>] >>] }

\* The documents saved so far.
Saved == {trace[i].doc : i \in {j \in DOMAIN trace : trace[j].ev = "save"}}

\* PLCTestGUI.load_plan: an exception of from_dict leaves self.plan as it was.
LoadPlan ==
  /\ pc = "file"
  /\ clicks < MaxFileOps
  /\ clicks' = clicks + 1
  /\ \E data \in Documents \cup Saved :
       LET r == from_dict(data)
       IN  /\ plan' = IF r.exc = "" THEN r.v ELSE plan
           /\ exc' = r.exc
           /\ trace' = Append(trace, [ev |-> "load", doc |-> data, ok |-> r.exc = "",
                                      plan |-> IF r.exc = "" THEN r.v ELSE plan])
  /\ UNCHANGED <<variant, pc, mi, ti, si, ai, connected, session, mem, success,
                 failures, faults>>

\* PLCTestGUI.save_plan
SavePlan ==
  /\ pc = "file"
  /\ clicks < MaxFileOps
  /\ clicks' = clicks + 1
  /\ trace' = Append(trace, [ev |-> "save", doc |-> to_dict(plan), ok |-> TRUE,
                             plan |-> plan])
  /\ UNCHANGED <<variant, plan, pc, mi, ti, si, ai, connected, session, mem,
                 success, failures, exc, faults>>

\* The GUI holding the empty plan it starts with or a plan made in its editor.
FilePlans ==
  { <<>>, SinglePlan(StepSetBit), PlanOf(StepIntMismatch, StepBroadcast, StepMulti) }

InitFile ==
  /\ variant = "gui"
  /\ plan \in FilePlans
  /\ pc = "file"
  /\ mi = 0 /\ ti = 0 /\ si = 0 /\ ai = 0
  /\ connected = FALSE
  /\ session = FALSE
  /\ mem = InitMem
  /\ success = TRUE
  /\ failures = <<>>
  /\ exc = ""
  /\ trace = <<>>
  /\ faults = 0
  /\ clicks = 0

NextFile == LoadPlan \/ SavePlan

SpecFile == InitFile /\ [][NextFile]_vars

\* ------------------------- one test under the console runner, then the GUI's

PairSteps ==
  {StepMulti, StepMixed, StepIntMismatch, StepLateBadType, StepShortValues,
   StepNegativeDelay}

InitPair ==
  \E s1 \in PairSteps, s2 \in {StepSetBit, StepPause} :
    Start("console", AddrPlan(s1, s2), InitMem, 0)

\* What a finished run of the one test leaves: the device calls in order,
\* whether _run_test was reached, the verdict and the failure list.
Outcome ==
  [calls |-> SelectSeq(trace, LAMBDA x : x.ev \in DeviceEvents),
   ran |-> \E i \in DOMAIN trace : trace[i].ev = "result",
   success |-> success,
   failures |-> failures]

\* The plan the console has run is given to a PLCTestGUI with a PLCConnection
\* of its own, in front of a device in the state the console found it in.
GuiSameTest ==
  /\ variant = "console"
  /\ pc = "done"
  /\ variant' = "gui"
  /\ pc' = "idle"
  /\ trace' = << Ev("run", <<0, 0, 0, 0>>, 0, 0, 0, Outcome, success) >>
  /\ mi' = 0 /\ ti' = 0 /\ si' = 0 /\ ai' = 0
  /\ connected' = FALSE
  /\ session' = FALSE
  /\ mem' = InitMem
  /\ success' = TRUE
  /\ failures' = <<>>
  /\ exc' = ""
  /\ faults' = 0
  /\ clicks' = 0
  /\ UNCHANGED plan

NextPair == Next \/ GuiSameTest

SpecPair == InitPair /\ [][NextPair]_vars

\* ------------------------------------------------------------ the step editor

\* The comma-separated tokens of an entry field, stripped and without the
\* empty ones: a token int() accepts, a "byte.bit" token, a word int() rejects.
IntTok(n) == [t |-> "int", v |-> n, w |-> 0]
BitTok(b, i) == [t |-> "bit", v |-> b, w |-> i]
WordTok == [t |-> "word", v |-> 0, w |-> 0]

\* str.upper() of the type tokens of the forms.
Upper(tok) ==
  CASE tok = "int" -> "INT"
    [] tok = "byte" -> "BYTE"
    [] OTHER -> tok

\* StepEditor._parse_value: float(token) for REAL, membership in {"1", "true",
\* "t", "yes"} for BOOL, int(token) otherwise.
ParseValue(tok, dtype) ==
  IF dtype = "BOOL" THEN [ok |-> TRUE, v |-> PyBool(tok.t = "int" /\ tok.v = 1)]
  ELSE IF tok.t = "int" THEN [ok |-> TRUE, v |-> PyInt(tok.v)]
  ELSE [ok |-> FALSE, v |-> None]

\* The address a start token becomes.
ParseStart(tok) ==
  CASE tok.t = "int" -> [ok |-> TRUE, v |-> IntAddr(tok.v)]
    [] tok.t = "bit" -> [ok |-> TRUE, v |-> BitAddr(tok.v, tok.w)]
    [] OTHER -> [ok |-> FALSE, v |-> BadAddr]

\* x[0] if len(x) == 1 else x
ScalarOrList(xs) == IF Len(xs) = 1 THEN Scalar(xs[1]) ELSE List(xs)

NoStep == [ok |-> FALSE, step |-> <<>>]

\* _on_ok without the check of the number of write values.
StepEditor_on_ok_AnyWrites(form) ==
  LET desc == IF form.desc = " " THEN "" ELSE form.desc
      starts == [i \in DOMAIN form.starts |-> ParseStart(form.starts[i])]
      N == Len(starts)
      tokens == [i \in DOMAIN form.types |-> Upper(form.types[i])]
      types == IF Len(tokens) = 1 /\ N > 1 THEN [i \in 1..N |-> tokens[1]] ELSE tokens
      TypeAt(i) == IF i <= Len(types) THEN types[i] ELSE "INT"
      writes == [i \in DOMAIN form.writes |-> ParseValue(form.writes[i], TypeAt(i))]
      expecteds == [i \in DOMAIN form.expecteds |->
                      ParseValue(form.expecteds[i], TypeAt(i))]
  IN  IF \/ desc = ""
         \/ form.db.t # "int"
         \/ N = 0
         \/ \E i \in 1..N : ~starts[i].ok
         \/ tokens = <<>>
         \/ Len(types) # N
         \/ \E i \in DOMAIN writes : ~writes[i].ok
         \/ (expecteds # <<>> /\ Len(expecteds) # N)
         \/ \E i \in DOMAIN expecteds : ~expecteds[i].ok
         \/ form.delay.t = "word"
      THEN NoStep
      ELSE [ok |-> TRUE,
            step |-> TestStep(desc, form.db.v,
                              ScalarOrList([i \in 1..N |-> starts[i].v]),
                              ScalarOrList(types),
                              IF writes = <<>> THEN Scalar(None)
                              ELSE ScalarOrList([i \in DOMAIN writes |-> writes[i].v]),
                              IF expecteds = <<>> THEN Scalar(None)
                              ELSE ScalarOrList([i \in 1..N |-> expecteds[i].v]),
                              IF form.delay.t = "int" THEN PyInt(form.delay.v) ELSE None)]

\* StepEditor._on_ok: every ValueError of the try block ends in showerror and
\* return, with self.result still None.
StepEditor_on_ok(form) ==
  LET desc == IF form.desc = " " THEN "" ELSE form.desc
      starts == [i \in DOMAIN form.starts |-> ParseStart(form.starts[i])]
      N == Len(starts)
      tokens == [i \in DOMAIN form.types |-> Upper(form.types[i])]
      types == IF Len(tokens) = 1 /\ N > 1 THEN [i \in 1..N |-> tokens[1]] ELSE tokens
      TypeAt(i) == IF i <= Len(types) THEN types[i] ELSE "INT"
      writes == [i \in DOMAIN form.writes |-> ParseValue(form.writes[i], TypeAt(i))]
      expecteds == [i \in DOMAIN form.expecteds |->
                      ParseValue(form.expecteds[i], TypeAt(i))]
  IN  IF \/ desc = ""
         \/ form.db.t # "int"
         \/ N = 0
         \/ \E i \in 1..N : ~starts[i].ok
         \/ tokens = <<>>
         \/ Len(types) # N
         \/ (writes # <<>> /\ Len(writes) # N)
         \/ \E i \in DOMAIN writes : ~writes[i].ok
         \/ (expecteds # <<>> /\ Len(expecteds) # N)
         \/ \E i \in DOMAIN expecteds : ~expecteds[i].ok
         \/ form.delay.t = "word"
      THEN NoStep
      ELSE [ok |-> TRUE,
            step |-> TestStep(desc, form.db.v,
                              ScalarOrList([i \in 1..N |-> starts[i].v]),
                              ScalarOrList(types),
                              IF writes = <<>> THEN Scalar(None)
                              ELSE ScalarOrList([i \in 1..N |-> writes[i].v]),
                              IF expecteds = <<>> THEN Scalar(None)
                              ELSE ScalarOrList([i \in 1..N |-> expecteds[i].v]),
                              IF form.delay.t = "int" THEN PyInt(form.delay.v) ELSE None)]

\* What the user has typed when OK is pressed.
Blank == [t |-> "blank", v |-> 0, w |-> 0]
Form(desc, db, starts, types, writes, expecteds, delay) ==
  [desc |-> desc, db |-> db, starts |-> starts, types |-> types, writes |-> writes,
   expecteds |-> expecteds, delay |-> delay]
StartChoices ==
  { <<>>, <<IntTok(0)>>, <<IntTok(0), IntTok(2)>>, <<BitTok(1, 2), WordTok>> }
TypeChoices == { <<>>, <<"int">>, <<"INT", "BYTE">>, <<"BOOL", "BOOL", "BOOL">> }
WriteChoices == { <<>>, <<IntTok(7)>>, <<IntTok(7), IntTok(1)>>, <<WordTok>> }
ExpectedChoices == { <<>>, <<IntTok(7)>>, <<IntTok(7), IntTok(8), IntTok(9)>> }
Forms ==
  { Form("fill", IntTok(1), st, ty, wr, ex, Blank) :
      st \in StartChoices \cup {<<BitTok(1, 2), BitTok(1, 3), BitTok(1, 4)>>},
      ty \in TypeChoices, wr \in WriteChoices, ex \in ExpectedChoices }
  \cup { Form(d, db, <<IntTok(0)>>, <<"byte">>, <<IntTok(7)>>, <<>>, dl) :
           d \in {"", " ", "fill"}, db \in {IntTok(2), WordTok},
           dl \in {Blank, IntTok(50), WordTok} }

\* add_step up to root.wait_window(editor): the editor opens with result None.
AddStep ==
  /\ pc = "window"
  /\ pc' = "adding"
  /\ UNCHANGED <<variant, plan, mi, ti, si, ai, connected, session, mem, success,
                 failures, exc, trace, faults, clicks>>

\* edit_step up to root.wait_window(editor), for the step selected in the list.
EditStep ==
  /\ pc = "window"
  /\ \E idx \in 1..Len(CurTest.steps) : si' = idx
  /\ pc' = "editing"
  /\ UNCHANGED <<variant, plan, mi, ti, ai, connected, session, mem, success,
                 failures, exc, trace, faults, clicks>>

\* The OK button.  With a result the editor is destroyed, wait_window returns
\* and add_step appends the step, edit_step puts it in the place of the
\* selected one; without one the editor stays open.
PressOk ==
  /\ pc \in {"adding", "editing"}
  /\ clicks < MaxPresses
  /\ clicks' = clicks + 1
  /\ \E form \in Forms :
       LET r == StepEditor_on_ok(form)
       IN  /\ trace' = << [ev |-> "ok", form |-> form, result |-> r, op |-> pc,
                            sel |-> si, before |-> plan] >>
           /\ pc' = IF r.ok THEN "window" ELSE pc
           /\ plan' = IF ~r.ok THEN plan
                      ELSE IF pc = "adding"
                      THEN [plan EXCEPT ![mi].tests[ti].steps = Append(@, r.step)]
                      ELSE [plan EXCEPT ![mi].tests[ti].steps[si] = r.step]
  /\ UNCHANGED <<variant, mi, ti, si, ai, connected, session, mem, success,
                 failures, exc, faults>>

\* The Cancel button or the close box: destroy with result None.
CancelEditor ==
  /\ pc \in {"adding", "editing"}
  /\ pc' = "window"
  /\ trace' = << [ev |-> "cancel", form |-> <<>>, result |-> NoStep, op |-> pc,
                  sel |-> si, before |-> plan] >>
  /\ UNCHANGED <<variant, plan, mi, ti, si, ai, connected, session, mem, success,
                 failures, exc, faults, clicks>>

InitEdit ==
  /\ variant = "gui"
  /\ plan = SinglePlan(StepSetBit)
  /\ pc = "window"
  /\ mi = 1 /\ ti = 1 /\ si = 0 /\ ai = 0
  /\ connected = FALSE
  /\ session = FALSE
  /\ mem = InitMem
  /\ success = TRUE
  /\ failures = <<>>
  /\ exc = ""
  /\ trace = <<>>
  /\ faults = 0
  /\ clicks = 0

NextEdit == AddStep \/ EditStep \/ PressOk \/ CancelEditor

SpecEdit == InitEdit /\ [][NextEdit]_vars

\* ------------------------------------------------------------ reading the trace

Aggregating == variant \in {"console", "gui"}
Where(ev) == {i \in DOMAIN trace : trace[i].ev = ev}
DeviceCalls == {i \in DOMAIN trace : trace[i].ev \in DeviceEvents}
FailedCalls == {i \in DeviceCalls : ~trace[i].ok}
StepOf(k) == <<k[1], k[2], k[3]>>
TestOf(k) == <<k[1], k[2]>>
\* Declaration order of two steps <<module, test, step>>.
Before(p, q) ==
  \/ p[1] < q[1]
  \/ p[1] = q[1] /\ p[2] < q[2]
  \/ p[1] = q[1] /\ p[2] = q[2] /\ p[3] < q[3]
PlanTests ==
  UNION { { <<m, t>> : t \in 1..Len(plan[m].tests) } : m \in 1..Len(plan) }
PlanSteps ==
  UNION { { <<mt[1], mt[2], s>> : s \in 1..Len(plan[mt[1]].tests[mt[2]].steps) } :
          mt \in PlanTests }
StepAt(q) == plan[q[1]].tests[q[2]].steps[q[3]]
InTest == pc \in {"step", "addr", "report"}
\* The events of one kind, in order.
Events(ev) == SelectSeq(trace, LAMBDA x : x.ev = ev)

\* Whether the step's fields give address position pos a write / an expected
\* value, read off the fields as the plan declares them.
Declared(field, pos) ==
  IF field.list THEN pos <= Len(field.items) /\ field.items[pos].k # "none"
  ELSE pos = 1 /\ field.items[1].k # "none"
HasWrite(step, pos) == Declared(step.write, pos)
HasExpected(step, pos) == Declared(step.expected, pos)

\* ---------------------------------------------------------------- C1

Lifecycle ==
  /\ Cardinality(Where("connect")) <= 1
  /\ \A i \in DeviceCalls :
       /\ \E c \in Where("connect") : c < i /\ trace[c].ok
       /\ \A d \in Where("disconnect") : i < d
  /\ (pc = "done" /\ exc # "connect") =>
       /\ Cardinality(Where("connect")) = 1
       /\ Cardinality(Where("disconnect")) = 1
       /\ trace[1].ev = "connect"
       /\ trace[Len(trace)].ev = "disconnect"

\* C1 as stated: every entry point, PLCTestGUI.run_plan included, connects once
\* before the first step and disconnects once after the last, and no device
\* call lies outside.
C1_EveryEntryPoint == Lifecycle

\* C1 (amended): plan_runner.run_plan and plc_tester_gui.run_plan connect exactly
\* once before the first step; when that connect succeeds they disconnect
\* exactly once after the last step, also when an exception leaves the test
\* case; no device read or write happens before the connect or after the
\* disconnect.
C1_RunPlanLifecycle == variant \in {"console", "simple"} => Lifecycle

C1_Witness ==
  /\ variant = "simple" /\ pc = "done" /\ exc = "AssertionError"
  /\ DeviceCalls # {}
  /\ trace[Len(trace)].ev = "disconnect"

\* ---------------------------------------------------------------- C2

\* C2: in the aggregating runners, after a step fails verification every later
\* step of the plan (same test, later tests, later modules) is still executed.
C2_NoEarlyTermination ==
  (Aggregating /\ pc = "done") =>
    \A i \in Where("expect") :
      ~trace[i].ok =>
        \A q \in PlanSteps :
          Before(StepOf(trace[i].key), q) =>
            \E j \in Where("enter") : j > i /\ StepOf(trace[j].key) = q

C2_Witness ==
  /\ Aggregating /\ pc = "done"
  /\ \E i \in Where("expect") :
       /\ ~trace[i].ok /\ StepOf(trace[i].key) = <<1, 1, 1>>
       /\ \E j \in DeviceCalls : j > i /\ StepOf(trace[j].key) = <<1, 1, 2>>
       /\ \E j \in DeviceCalls : j > i /\ StepOf(trace[j].key) = <<2, 1, 1>>

\* ---------------------------------------------------------------- C3

\* C3 as stated: in every runner, the module-level one included, a mismatch
\* raises nothing.
C3_EveryRunner == exc # "AssertionError"

\* The failing comparisons of the running test and the mismatch entries of
\* failures, in order.
FailedExpects ==
  SelectSeq(trace, LAMBDA x : x.ev = "expect" /\ ~x.ok /\ TestOf(x.key) = <<mi, ti>>)
MismatchEntries == SelectSeq(failures, LAMBDA x : x.kind = "mismatch")

\* C3 (amended): in plan_runner._run_test and PLCTestGUI._run_test a mismatch is
\* recorded as a failure entry and no exception leaves the test case or
\* run_plan; the module-level plc_tester_gui._run_test records nothing and
\* raises AssertionError, which leaves run_plan.
C3_AggregatingRunners ==
  /\ Aggregating =>
       /\ exc \in {"", "connect"}
       /\ InTest =>
            /\ Len(FailedExpects) = Len(MismatchEntries)
            /\ \A j \in DOMAIN MismatchEntries :
                 /\ MismatchEntries[j].step = FailedExpects[j].key[3]
                 /\ MismatchEntries[j].pos = FailedExpects[j].key[4]
                 /\ MismatchEntries[j].got = FailedExpects[j].n
  /\ variant = "simple" =>
       /\ failures = <<>>
       /\ exc = "AssertionError" => pc \in {"finally", "done"}

C3_Witness ==
  /\ Aggregating /\ pc = "done" /\ exc = ""
  /\ \E i \in Where("result") : ~trace[i].ok
  /\ \E i \in Where("expect") : ~trace[i].ok

\* ---------------------------------------------------------------- C4

\* Whether the first address of a step reaches the device: its type is known,
\* its address parses, and its write value (or, with no write, its expected
\* value) leads to a call.
IssuesIO(step) ==
  /\ Len(Starts(step)) >= 1 /\ Len(Types(step)) >= 1
  /\ HasWrite(step, 1) \/ HasExpected(step, 1)
  /\ LET dtype == Types(step)[1]
         start == Starts(step)[1]
         w == WriteAt(step, 1)
     IN  CASE dtype = "BOOL" -> BoolParsable(start)
           [] dtype = "BYTE" -> IntParsable(start) /\ (HasWrite(step, 1) => w.v \in 0..255)
           [] OTHER -> /\ dtype \in TYPE_FUNCS
                       /\ IntParsable(start)
                       /\ HasWrite(step, 1) => set_func(dtype, w).ok

ErrorEntries(idx) ==
  {j \in DOMAIN failures : failures[j].kind = "error" /\ failures[j].step = idx}

\* C4: in the aggregating runners a device call that raises in step k adds
\* exactly one error entry, naming step k, ends the device calls of step k, and
\* every later step is still entered and issues its own device calls; a test of
\* 3 steps whose only failure is a raising call in step 2 is FAILED with
\* exactly one failure entry, naming step 2.
C4_StepIsolation ==
  Aggregating =>
    /\ \A i \in FailedCalls :
         LET k == StepOf(trace[i].key)
         IN  /\ i < Len(trace)
             /\ trace[i + 1].ev = "error" /\ StepOf(trace[i + 1].key) = k
             /\ Cardinality({j \in Where("error") : StepOf(trace[j].key) = k}) = 1
             /\ \A j \in DeviceCalls : j > i => StepOf(trace[j].key) # k
             /\ (InTest /\ TestOf(k) = <<mi, ti>>) =>
                  Cardinality(ErrorEntries(k[3])) = 1
             /\ pc = "done" =>
                  \A q \in PlanSteps :
                    Before(k, q) =>
                      /\ \E j \in Where("enter") : j > i /\ StepOf(trace[j].key) = q
                      /\ IssuesIO(StepAt(q)) =>
                           \E j \in DeviceCalls : j > i /\ StepOf(trace[j].key) = q
    /\ ( /\ pc = "report"
         /\ Len(CurTest.steps) = 3
         /\ \E i \in FailedCalls : trace[i].key[3] = 2 /\ TestOf(trace[i].key) = <<mi, ti>>
         /\ \A i \in Where("error") : TestOf(trace[i].key) = <<mi, ti>> => trace[i].key[3] = 2
         /\ FailedExpects = <<>> )
       => /\ ~success
          /\ Len(failures) = 1
          /\ failures[1].kind = "error" /\ failures[1].step = 2
          /\ \E j \in DeviceCalls : StepOf(trace[j].key) = <<mi, ti, 3>>

C4_Witness ==
  /\ variant = "console" /\ pc = "report" /\ mi = 1 /\ ti = 1
  /\ faults = 1
  /\ \E i \in FailedCalls : StepOf(trace[i].key) = <<1, 1, 2>>
  /\ Len(failures) = 1 /\ failures[1].step = 2
  /\ \E j \in DeviceCalls : StepOf(trace[j].key) = <<1, 1, 3>> /\ trace[j].ok

\* ---------------------------------------------------------------- C5

EnteredSteps ==
  LET entered == Events("enter")
  IN  [j \in DOMAIN entered |-> StepOf(entered[j].key)]
\* The last step entered before position i of the trace.
EnteredBefore(i) ==
  LET js == {j \in Where("enter") : j < i}
  IN  IF js = {} THEN <<0, 0, 0>>
      ELSE StepOf(trace[CHOOSE j \in js : \A l \in js : l <= j].key)

\* C5: the steps are entered in declaration order, each at most once (never
\* again after an error), every device call belongs to the step entered last,
\* and a run that ends without an exception has entered every step of the plan
\* exactly once.
C5_ExactlyOnceInOrder ==
  LET es == EnteredSteps
      ps == PlanSteps
  IN  /\ \A j \in DOMAIN es :
           /\ es[j] \in ps
           /\ j > 1 => Before(es[j - 1], es[j])
      /\ \A i \in DeviceCalls : StepOf(trace[i].key) = EnteredBefore(i)
      /\ (pc = "done" /\ exc = "") =>
           /\ Len(es) = Cardinality(ps)
           /\ \A q \in ps : \E j \in DOMAIN es : es[j] = q

C5_Witness ==
  /\ pc = "done" /\ exc = "" /\ variant = "console"
  /\ Len(EnteredSteps) = 5
  /\ FailedCalls # {}
  /\ \E i \in Where("expect") : ~trace[i].ok

\* ---------------------------------------------------------------- C6

Results(mt) == {i \in Where("result") : TestOf(trace[i].key) = mt}

\* C6: in the aggregating runners every test that was started reports at most
\* one verdict, exactly one once the runner has left the test, and the verdict
\* comes after every step of the test was entered and after the last device
\* call of the test.
C6_OneVerdict ==
  Aggregating =>
    \A t \in Where("test") :
      LET mt == TestOf(trace[t].key)
          left == pc = "done" \/ Before(<<mt[1], mt[2], 0>>, <<mi, ti, 0>>)
          rs == Results(mt)
          entered == {j \in Where("enter") : TestOf(trace[j].key) = mt}
          calls == {j \in DeviceCalls : TestOf(trace[j].key) = mt}
      IN  /\ Cardinality(rs) <= 1
          /\ left => Cardinality(rs) = 1
          /\ \A r \in rs :
               /\ r > t
               /\ Cardinality(entered) = Len(plan[mt[1]].tests[mt[2]].steps)
               /\ \A j \in calls \cup entered : j < r

C6_Witness ==
  /\ Aggregating /\ pc = "done"
  /\ Cardinality(Where("result")) = 3
  /\ \E r \in Where("result") : ~trace[r].ok /\ trace[r].n >= 2
  /\ \E r \in Where("result") : trace[r].ok
  /\ FailedCalls # {}

\* ---------------------------------------------------------------- C7

\* C7: while _run_test runs, success is false exactly when failures is not
\* empty, and the reported verdict is PASSED exactly when no comparison of the
\* test failed and no step of it raised.
C7_VerdictIsConjunction ==
  Aggregating =>
    /\ InTest => (success <=> failures = <<>>)
    /\ \A r \in Where("result") :
         /\ trace[r].ok <=> trace[r].n = 0
         /\ trace[r].ok <=>
              \A j \in Where("expect") \cup Where("error") :
                (j < r /\ TestOf(trace[j].key) = TestOf(trace[r].key)) => trace[j].ok
         /\ trace[r].n =
              Cardinality({j \in Where("expect") \cup Where("error") :
                             j < r /\ TestOf(trace[j].key) = TestOf(trace[r].key)
                             /\ ~trace[j].ok})

C7_Witness ==
  /\ Aggregating /\ pc = "done"
  /\ \E r \in Where("result") : trace[r].ok
  /\ \E r \in Where("result") : ~trace[r].ok /\ trace[r].n = 3

\* ---------------------------------------------------------------- C8

\* The address being processed, when DoAddress is about to process one.
AtAddress == pc = "addr" /\ ai <= Len(Starts(CurStep))
\* DoAddress has just recorded the error of a step.
Errored == \E i \in DOMAIN trace' : i > Len(trace) /\ trace'[i].ev = "error"

\* C8 as stated: processing an address that has a write value and no expected
\* value never adds a failure entry and never turns the verdict to FAILED.
C8_NeverFails ==
  [][ (Aggregating /\ AtAddress /\ HasWrite(CurStep, ai) /\ ~HasExpected(CurStep, ai))
      => (failures' = failures /\ success' = success) ]_vars

\* C8: an address with a write value and no expected value is never compared:
\* no "Expect" line and no mismatch entry belongs to such an address, whatever
\* the device memory holds; processing it leaves the failure list and the
\* verdict as they were unless it raises, and a FAILED verdict always rests on
\* a comparison of an address that has an expected value or on an error of a
\* step.
C8_WriteOnlyPasses ==
  /\ [](/\ \A i \in Where("expect") :
            HasExpected(StepAt(StepOf(trace[i].key)), trace[i].key[4])
        /\ InTest =>
            \A j \in DOMAIN failures :
              failures[j].kind = "mismatch" =>
                HasExpected(StepAt(<<mi, ti, failures[j].step>>), failures[j].pos)
        /\ \A r \in Where("result") :
            ~trace[r].ok =>
              \E j \in Where("expect") \cup Where("error") :
                /\ j < r /\ ~trace[j].ok /\ TestOf(trace[j].key) = TestOf(trace[r].key)
                /\ trace[j].ev = "expect" =>
                     HasExpected(StepAt(StepOf(trace[j].key)), trace[j].key[4]))
  /\ [][ ( /\ Aggregating /\ AtAddress
           /\ HasWrite(CurStep, ai) /\ ~HasExpected(CurStep, ai)
           /\ ~Errored )
         => (failures' = failures /\ success' = success) ]_vars

C8_Witness ==
  /\ Aggregating /\ pc = "done"
  /\ mem # InitMem /\ mem # AllBytes(0) /\ mem # AllBytes(127)
  /\ \E i \in Where("write") :
       /\ trace[i].ok
       /\ HasWrite(StepAt(StepOf(trace[i].key)), trace[i].key[4])
       /\ ~HasExpected(StepAt(StepOf(trace[i].key)), trace[i].key[4])
  /\ Where("expect") = {}
  /\ \E r \in Where("result") : trace[r].ok

\* ---------------------------------------------------------------- C9

\* C9: no device write is ever issued for an address that has no write value,
\* whatever its type, and processing such an address leaves the device memory
\* as it was.
C9_ExpectedOnlyNoWrite ==
  /\ [](\A i \in Where("write") :
          HasWrite(StepAt(StepOf(trace[i].key)), trace[i].key[4]))
  /\ [][(AtAddress /\ ~HasWrite(CurStep, ai)) => mem' = mem]_vars

C9_Witness ==
  /\ pc = "done"
  /\ \E i \in Where("read") :
       /\ trace[i].ok
       /\ Types(StepAt(StepOf(trace[i].key)))[trace[i].key[4]] = "BOOL"
       /\ HasExpected(StepAt(StepOf(trace[i].key)), trace[i].key[4])
       /\ ~HasWrite(StepAt(StepOf(trace[i].key)), trace[i].key[4])
  /\ \E i \in Where("expect") : ~trace[i].ok

\* ---------------------------------------------------------------- C10

Bit(x, j) == (x \div (2 ^ j)) % 2 = 1
\* DoAddress has just issued a device write that returned.
Wrote == \E i \in DOMAIN trace' : i > Len(trace) /\ trace'[i].ev = "write" /\ trace'[i].ok

\* C10: a BOOL write to "B.b" that completes leaves bit b of byte B equal to the
\* written boolean and every other bit of byte B, and every other byte of the
\* device, as it was; the check that follows reads the written boolean back.
C10_BoolReadModifyWrite ==
  [][ ( /\ AtAddress
        /\ ai <= Len(Types(CurStep))
        /\ Types(CurStep)[ai] = "BOOL"
        /\ HasWrite(CurStep, ai)
        /\ Wrote )
      => LET B == Starts(CurStep)[ai].parts[1]
             b == Starts(CurStep)[ai].parts[2]
             v == (IF CurStep.write.list THEN CurStep.write.items[ai]
                   ELSE CurStep.write.items[1]).v # 0
         IN  /\ \A db \in DOMAIN mem : \A o \in DOMAIN mem[db] :
                  IF db = CurStep.db_number /\ o = B
                  THEN \A j \in 0..7 :
                         Bit(mem'[db][o], j) = IF j = b THEN v ELSE Bit(mem[db][o], j)
                  ELSE mem'[db][o] = mem[db][o]
             /\ \A i \in DOMAIN trace' :
                  (i > Len(trace) /\ trace'[i].ev = "expect") =>
                    trace'[i].n = IF v THEN 1 ELSE 0
    ]_vars

C10_Witness ==
  /\ pc = "done" /\ mem[2][5] = 255
  /\ \E i \in Where("write") :
       /\ trace[i].ok /\ trace[i].data = <<255>> /\ trace[i].key[4] = 1
       /\ trace[i - 1].ev = "read" /\ trace[i - 1].data = <<247>>
  /\ \E i \in Where("expect") : trace[i].ok /\ trace[i].n = 1

\* ---------------------------------------------------------------- C11

\* A failure entry names a step of the test by its 1-based index and carries
\* that step's description.
EntryNamesStep(f, test) ==
  /\ f.step \in 1..Len(test.steps)
  /\ f.description = test.steps[f.step].description
\* A failure entry names one of the addresses of its step.
EntryNamesAddress(f, test) ==
  /\ f.step \in 1..Len(test.steps)
  /\ f.pos \in 1..Len(Starts(test.steps[f.step]))
  /\ f.at = Starts(test.steps[f.step])[f.pos]
\* The comparisons that failed and the errors of the running test, in the
\* order in which they happened.
FailingEvents ==
  SelectSeq(trace, LAMBDA x : /\ x.ev \in {"expect", "error"} /\ ~x.ok
                              /\ TestOf(x.key) = <<mi, ti>>)
\* The Failure lines printed after the Result line at position r of the trace.
PrintedAfter(r) == [j \in 1..trace[r].n |-> trace[r + j]]

\* C11 as stated: every failure entry names a step, its description and an
\* address of the step, and the entries are ordered by step index, then by
\* address position.
C11_EveryLineNamesAddress ==
  (Aggregating /\ InTest) =>
    /\ \A j \in DOMAIN failures :
         EntryNamesStep(failures[j], CurTest) /\ EntryNamesAddress(failures[j], CurTest)
    /\ \A i, j \in DOMAIN failures :
         i < j => \/ failures[i].step < failures[j].step
                  \/ /\ failures[i].step = failures[j].step
                     /\ failures[i].pos < failures[j].pos

\* C11 (amended): every failure entry names a step of the test by its 1-based
\* index and that step's description; the entry of a failed comparison also
\* names the address compared, the entry of an error names no address.  The
\* entries are in execution order: one per failed comparison or error, by step
\* index, within a step by address position with the error of the step last;
\* the Failure lines after the Result line are these entries in this order.
C11_FailureAttribution ==
  Aggregating =>
    /\ InTest =>
         LET happened == FailingEvents
         IN  /\ Len(failures) = Len(happened)
             /\ \A j \in DOMAIN failures :
                  /\ EntryNamesStep(failures[j], CurTest)
                  /\ failures[j].step = happened[j].key[3]
                  /\ IF happened[j].ev = "expect"
                     THEN /\ failures[j].kind = "mismatch"
                          /\ EntryNamesAddress(failures[j], CurTest)
                          /\ failures[j].pos = happened[j].key[4]
                     ELSE /\ failures[j].kind = "error"
                          /\ failures[j].at = NoAddress
             /\ \A i, j \in DOMAIN failures :
                  i < j => \/ failures[i].step < failures[j].step
                           \/ /\ failures[i].step = failures[j].step
                              /\ failures[i].kind = "mismatch"
                              /\ \/ failures[j].kind = "error"
                                 \/ failures[i].pos < failures[j].pos
    /\ pc = "report" =>
         \A j \in DOMAIN failures : failures[j].step \in 1..Len(CurTest.steps)
    /\ \A r \in Where("result") :
         /\ r + trace[r].n <= Len(trace)
         /\ \A j \in 1..trace[r].n :
              LET line == PrintedAfter(r)[j]
              IN  /\ line.ev = "failure" /\ line.n = j
                  /\ TestOf(line.key) = TestOf(trace[r].key)
                  /\ line.key[3] \in 1..Len(plan[line.key[1]].tests[line.key[2]].steps)
                  /\ j > 1 =>
                       LET prev == PrintedAfter(r)[j - 1]
                       IN  \/ prev.key[3] < line.key[3]
                           \/ /\ prev.key[3] = line.key[3]
                              /\ prev.key[4] # 0
                              /\ line.key[4] = 0 \/ prev.key[4] < line.key[4]

C11_Witness ==
  /\ variant = "console" /\ pc = "report"
  /\ \E i, j, k \in DOMAIN failures :
       /\ failures[i].kind = "error"
       /\ failures[j].kind = "mismatch" /\ failures[j].pos = 1
       /\ failures[k].kind = "mismatch" /\ failures[k].pos = 2
       /\ failures[j].step = failures[k].step
       /\ failures[i].step # failures[j].step

\* ---------------------------------------------------------------- C12

\* C12: when the connect of run_plan raises, the error leaves run_plan, which
\* is over: no step was entered, no device read or write was issued, nothing
\* else was called or logged, the device memory is as it was, and the
\* connection is not connected.
C12_ConnectFailureFatal ==
  variant \in {"console", "simple"} =>
    /\ \A c \in Where("connect") :
         ~trace[c].ok =>
           /\ exc = "connect" /\ pc = "done"
           /\ ~connected /\ ~session
           /\ Where("enter") = {} /\ DeviceCalls = {}
           /\ Where("disconnect") = {}
           /\ Len(trace) = 1
           /\ mem = InitMem
    /\ exc = "connect" => (Len(trace) = 1 /\ ~trace[1].ok /\ trace[1].ev = "connect")

C12_Witness ==
  /\ variant = "console" /\ pc = "done" /\ exc = "connect"
  /\ PlanSteps # {}
  /\ Where("connect") # {} /\ ~connected

\* ---------------------------------------------------------------- C13

\* The call just made on the connection was disconnect / connect.
CalledDisconnect == clicks' = clicks + 1 /\ ~\E i \in DOMAIN trace' :
                      i > Len(trace) /\ trace'[i].ev = "connect"
\* C13: a disconnect on a connection that is not connected calls nothing,
\* raises nothing and changes nothing; a disconnect on a connected one releases
\* the session once; so however many disconnects follow a successful connect,
\* the session it opened is released at most once, and exactly once as soon as
\* one disconnect was called.
C13_DisconnectIdempotent ==
  /\ [][ CalledDisconnect =>
           /\ exc' = ""
           /\ ~connected' /\ ~session'
           /\ IF connected
              THEN /\ Len(trace') = Len(trace) + 1
                   /\ trace'[Len(trace')].ev = "disconnect"
              ELSE trace' = trace /\ session' = session ]_vars
  /\ [](\A d \in Where("disconnect") :
          \E c \in Where("connect") :
            /\ c < d /\ trace[c].ok
            /\ \A d2 \in Where("disconnect") : ~(c < d2 /\ d2 < d))

\* Three disconnects in a row after a successful connect, one release.
C13_Witness ==
  /\ pc = "api" /\ clicks >= 5
  /\ Len(trace) = 2
  /\ trace[1].ev = "connect" /\ trace[1].ok
  /\ trace[2].ev = "disconnect"
  /\ ~connected

\* ---------------------------------------------------------------- C14

KnownTypes == {"BOOL", "BYTE", "INT", "DINT", "WORD", "DWORD", "REAL"}
\* Address position pos of the step has a configuration error: its resolved
\* type tag is unknown, or it is BOOL and its address is not "int.int".
ConfigErrorAt(step, pos) ==
  /\ pos \in 1..Len(Starts(step)) /\ pos <= Len(Types(step))
  /\ \/ Types(step)[pos] \notin KnownTypes
     \/ /\ Types(step)[pos] = "BOOL"
        /\ ~(Len(Starts(step)[pos].parts) = 2 /\ Starts(step)[pos].numeric)
\* The first such position of the step, 0 when it has none.
FirstConfigError(step) ==
  LET bad == {pos \in 1..Len(Starts(step)) : ConfigErrorAt(step, pos)}
  IN  IF bad = {} THEN 0 ELSE CHOOSE pos \in bad : \A o \in bad : pos <= o
EntriesOf(idx) == {j \in DOMAIN failures : failures[j].step = idx}

\* C14 as stated: once the test reports, a step with a configuration error has
\* exactly one failure entry.
C14_ExactlyOneEntry ==
  (Aggregating /\ pc = "report") =>
    \A k \in 1..Len(CurTest.steps) :
      FirstConfigError(CurTest.steps[k]) # 0 => Cardinality(EntriesOf(k)) = 1

\* C14 (amended): in the aggregating runners a step with a configuration error
\* gets exactly one error entry and its test is FAILED; the addresses before
\* the faulty one are processed and keep their own entries; no address from
\* the faulty one on issues a device call or a comparison; and every later
\* step of the plan is still entered and issues its device calls.
C14_ConfigErrorFatalToStep ==
  Aggregating =>
    \A j \in Where("enter") :
      LET q == StepOf(trace[j].key)
          p0 == FirstConfigError(StepAt(q))
          errs == {i \in Where("error") : StepOf(trace[i].key) = q}
          left == pc = "done" \/ Before(q, <<mi, ti, si>>)
      IN  p0 # 0 =>
            /\ Cardinality(errs) <= 1
            /\ left => Cardinality(errs) = 1
            /\ \A i \in DeviceCalls \cup Where("expect") :
                 StepOf(trace[i].key) = q => trace[i].key[4] < p0
            /\ \A i \in errs :
                 /\ trace[i].key[4] <= p0
                 /\ \A k \in DeviceCalls \cup Where("expect") :
                      k > i => StepOf(trace[k].key) # q
            /\ (InTest /\ TestOf(q) = <<mi, ti>> /\ left) =>
                 /\ ~success
                 /\ Cardinality(ErrorEntries(q[3])) = 1
                 /\ \A e \in EntriesOf(q[3]) :
                      failures[e].kind = "mismatch" => failures[e].pos < p0
            /\ \A r \in Results(TestOf(q)) : ~trace[r].ok
            /\ pc = "done" =>
                 \A q2 \in PlanSteps :
                   Before(q, q2) =>
                     /\ \E i \in Where("enter") : i > j /\ StepOf(trace[i].key) = q2
                     /\ IssuesIO(StepAt(q2)) =>
                          \E i \in DeviceCalls : i > j /\ StepOf(trace[i].key) = q2

\* An unknown type at the second address, after a mismatch at the first.
C14_Witness ==
  /\ variant = "console" /\ pc = "done" /\ faults = 0
  /\ StepAt(<<1, 1, 2>>) = StepLateBadType
  /\ \E i \in Where("expect") : ~trace[i].ok /\ trace[i].key = <<1, 1, 2, 1>>
  /\ \E i \in Where("error") : trace[i].key = <<1, 1, 2, 2>>
  /\ \E i \in DeviceCalls : trace[i].ok /\ StepOf(trace[i].key) = <<1, 1, 3>>
  /\ \E i \in DeviceCalls : trace[i].ok /\ StepOf(trace[i].key) = <<2, 1, 1>>

\* ---------------------------------------------------------------- C15

\* C15: the step address=[0,4], data_type=["INT","DINT"], expected=[10,-5]
\* writes nothing, reads 2 bytes at offset 0 and 4 bytes at offset 4 of its
\* block; the first comparison passes exactly when the bytes read are 00 0A
\* (decoded 10), the second exactly when they are FF FF FF FB (decoded -5);
\* run alone against the device that holds these bytes, with no call raising,
\* it passes for both addresses and the test is PASSED.
C15_MultiAddressScenario ==
  /\ \A j \in Where("enter") :
       LET q == StepOf(trace[j].key)
       IN  StepAt(q) = StepMulti =>
             /\ \A i \in Where("write") : StepOf(trace[i].key) # q
             /\ \A i \in Where("read") :
                  StepOf(trace[i].key) = q =>
                    /\ trace[i].db = 1
                    /\ trace[i].key[4] \in {1, 2}
                    /\ trace[i].key[4] = 1 => (trace[i].off = 0 /\ trace[i].n = 2)
                    /\ trace[i].key[4] = 2 => (trace[i].off = 4 /\ trace[i].n = 4)
                    /\ (Aggregating /\ trace[i].ok) =>
                         /\ i < Len(trace)
                         /\ trace[i + 1].ev = "expect" /\ trace[i + 1].key = trace[i].key
                         /\ trace[i].key[4] = 1 =>
                              /\ trace[i + 1].ok <=> trace[i].data = <<0, 10>>
                              /\ trace[i + 1].ok => trace[i + 1].n = 10
                         /\ trace[i].key[4] = 2 =>
                              /\ trace[i + 1].ok <=> trace[i].data = <<255, 255, 255, 251>>
                              /\ trace[i + 1].ok => trace[i + 1].n = -5
  /\ ( /\ pc = "done" /\ plan = SinglePlan(StepMulti) /\ mem = InitMem
       /\ FailedCalls = {} /\ DeviceCalls # {} ) =>
       /\ exc = ""
       /\ Cardinality({i \in Where("read") : trace[i].ok}) = 2
       /\ Aggregating =>
            /\ Cardinality(Where("expect")) = 2
            /\ \A i \in Where("expect") : trace[i].ok
            /\ \E r \in Where("result") : trace[r].ok /\ trace[r].n = 0

C15_Witness ==
  /\ variant = "console" /\ pc = "done" /\ plan = SinglePlan(StepMulti)
  /\ \E i \in Where("expect") : trace[i].ok /\ trace[i].n = 10 /\ trace[i].key[4] = 1
  /\ \E i \in Where("expect") : trace[i].ok /\ trace[i].n = -5 /\ trace[i].key[4] = 2
  /\ \E r \in Where("result") : trace[r].ok

\* ---------------------------------------------------------------- C16

\* abs(actual - expected) < 1e-6 for the single in the bytes read and an
\* integral expected value, computed on the single's sign, exponent and
\* mantissa: actual = N * 2^-d, so the difference is |N - expected * 2^d|
\* units of 2^-d, and 2^d / 10^6 is never a whole number.  (Singles of
\* magnitude in [1, 2^24) and zero.)
WithinTolerance(bytes, expected) ==
  LET ex == (bytes[1] % 128) * 2 + bytes[2] \div 128
      man == (bytes[2] % 128) * 65536 + bytes[3] * 256 + bytes[4]
      N == IF bytes[1] >= 128 THEN -(8388608 + man) ELSE 8388608 + man
      d == 150 - ex
  IN  IF ex = 0 /\ man = 0 THEN expected = 0
      ELSE Abs(N - expected * (2 ^ d)) <= (2 ^ d) \div 1000000

\* Whether the claim lets the address pass, given the bytes read for it.
ShouldPass(dtype, bytes, e) ==
  CASE dtype = "REAL" -> WithinTolerance(bytes, e.v)
    [] dtype = "BOOL" -> get_bool(bytes[1], 2) = (e.v # 0)
    [] dtype = "BYTE" -> bytes[1] = e.v
    [] OTHER -> get_func(dtype, bytes) = e.v

\* C16: a step that checks one address passes exactly when the value read
\* back is within 1e-6 of the expected value for REAL, equal to bool(expected)
\* for BOOL, and equal to the expected integer for BYTE, INT, DINT, WORD and
\* DWORD; in the aggregating runners the test is then PASSED and otherwise
\* FAILED with one mismatch entry, in the module-level runner the run ends
\* without or with AssertionError.
C16_ComparisonSemantics ==
  \A i \in Where("read") :
    LET step == StepAt(StepOf(trace[i].key))
        dtype == Types(step)[1]
        should == ShouldPass(dtype, trace[i].data, ExpectedAt(step, 1))
    IN  trace[i].ok =>
          /\ Aggregating =>
               /\ i < Len(trace) /\ trace[i + 1].ev = "expect"
               /\ trace[i + 1].ok <=> should
               /\ \A r \in Where("result") :
                    /\ trace[r].ok <=> should
                    /\ trace[r].n = IF should THEN 0 ELSE 1
          /\ (variant = "simple" /\ pc = "done") =>
               (exc = "" <=> should) /\ (exc = "AssertionError" <=> ~should)

\* 2.00000095 against expected 2 passes.
C16_Witness ==
  /\ variant = "console" /\ pc = "done"
  /\ \E i \in Where("read") : trace[i].ok /\ trace[i].data = <<64, 0, 0, 4>>
  /\ \E i \in Where("expect") : trace[i].ok
  /\ Types(StepAt(<<1, 1, 1>>))[1] = "REAL"
  /\ ExpectedAt(StepAt(<<1, 1, 1>>), 1) = PyInt(2)
  /\ \E r \in Where("result") : trace[r].ok

\* ---------------------------------------------------------------- C17

C18_PlanNeverMutated == [][plan' = plan]_vars

\* A run is over in which both addresses of a step with one type tag were
\* executed, and the step still carries the single tag.
C18_Witness ==
  /\ pc = "done"
  /\ \E k \in PlanSteps :
       LET step == StepAt(k)
       IN  /\ ~step.data_type.list /\ Len(Starts(step)) = 2
           /\ \E i \in DeviceCalls :
                StepOf(trace[i].key) = k /\ trace[i].key[4] = 2

\* ---------------------------------------------------------------- C19

\* Whether document e has every field of document d with the value d gives
\* it, through the modules, tests and steps.
KeepsStep(d, e) == \A k \in DOMAIN d : k \in DOMAIN e /\ e[k] = d[k]
KeepsList(d, e, k, Keeps(_, _)) ==
  /\ Len(e[k]) = Len(d[k])
  /\ \A i \in 1..Len(d[k]) : Keeps(d[k][i], e[k][i])
KeepsTest(d, e) ==
  \A k \in DOMAIN d :
    /\ k \in DOMAIN e
    /\ IF k = "steps" THEN KeepsList(d, e, k, KeepsStep) ELSE e[k] = d[k]
KeepsModule(d, e) ==
  \A k \in DOMAIN d :
    /\ k \in DOMAIN e
    /\ IF k = "tests" THEN KeepsList(d, e, k, KeepsTest) ELSE e[k] = d[k]
KeepsDocument(d, e) ==
  \A k \in DOMAIN d :
    /\ k \in DOMAIN e
    /\ IF k = "modules" THEN KeepsList(d, e, k, KeepsModule) ELSE e[k] = d[k]

\* A plan saved and loaded again from what was saved is the plan that was saved.
PlanSurvivesFile ==
  \A i \in Where("save") :
    (i < Len(trace) /\ trace[i + 1].ev = "load" /\ trace[i + 1].doc = trace[i].doc) =>
      trace[i + 1].ok /\ trace[i + 1].plan = trace[i].plan

\* A document loaded and saved again keeps every field it had.
DocumentSurvivesPlan ==
  \A i \in Where("load") :
    (trace[i].ok /\ i < Len(trace) /\ trace[i + 1].ev = "save") =>
      KeepsDocument(trace[i].doc, trace[i + 1].doc)

\* C19: TestPlan.from_dict(p.to_dict()) equals p for every plan p, and a
\* document passed through from_dict and then to_dict keeps its fields, those
\* from_dict does not read included.
C19_LosslessRoundTrip == PlanSurvivesFile /\ DocumentSurvivesPlan

\* ---------------------------------------------------------------- C20

\* C20: when the snap7 driver is not installed the import of the module
\* succeeds, a PLCConnection can be constructed, and connect on it raises
\* RuntimeError and establishes no connection.
C20_ImportWithoutSnap7 ==
  \A i \in Where("import") :
    trace[i].snap7 = "missing" =>
      /\ exc # "ModuleNotFoundError"
      /\ pc \in {"imported", "api"}
      /\ \A c \in Where("connect") : exc = "RuntimeError" /\ ~connected /\ ~session

\* ---------------------------------------------------------------- C21

\* C21: read(db, start, size, "M") is accepted and is followed by a read of
\* the marker area of the device that returns size bytes, not by a read of a
\* data block.
C21_ReadMarkerArea ==
  \A i \in Where("call") :
    trace[i].area = "M" =>
      /\ trace[i].ok
      /\ i < Len(trace) /\ trace[i + 1].ev = "read_area"
      /\ trace[i + 1].area = "MK" /\ Len(trace[i + 1].data) = trace[i].size

\* ---------------------------------------------------------------- C22

\* The step after step q of the same test has been entered, or is the next
\* thing the runner does.
ProceedsPast(i, q) ==
  \/ \E j \in Where("enter") : j > i /\ StepOf(trace[j].key) = <<q[1], q[2], q[3] + 1>>
  \/ pc = "step" /\ <<mi, ti, si>> = <<q[1], q[2], q[3] + 1>>

\* C22: in the aggregating runners a device read or write that raises at
\* address i of a step is the last device call of that step, so the addresses
\* after i get none; the step gets one error entry carrying the message of the
\* error and the test is no longer a success; the runner goes on to the next
\* step of the test.
C22_TransportErrorAbortsStep ==
  Aggregating =>
    \A i \in FailedCalls :
      LET k == trace[i].key
          q == StepOf(k)
          errs == {j \in Where("error") : StepOf(trace[j].key) = q}
      IN  /\ \A j \in DeviceCalls :
               StepOf(trace[j].key) = q => (j <= i /\ trace[j].key[4] <= k[4])
          /\ errs = {i + 1}
          /\ (InTest /\ TestOf(k) = <<mi, ti>>) =>
               /\ ~success
               /\ Cardinality(ErrorEntries(q[3])) = 1
               /\ \A j \in ErrorEntries(q[3]) : failures[j].msg = "transport"
          /\ q[3] < Len(plan[q[1]].tests[q[2]].steps) => ProceedsPast(i, q)

\* The device raises at the second of three addresses of the first step; the
\* third address gets no call and the second step reaches the device.
C22_Witness ==
  /\ variant = "console" /\ pc = "done" /\ faults = 1
  /\ \E i \in FailedCalls :
       /\ trace[i].key = <<1, 1, 1, 2>>
       /\ Len(Starts(StepAt(<<1, 1, 1>>))) = 3
       /\ \E j \in DeviceCalls : j < i /\ trace[j].key = <<1, 1, 1, 1>>
  /\ \E j \in DeviceCalls : StepOf(trace[j].key) = <<1, 1, 2>> /\ trace[j].ok

\* ---------------------------------------------------------------- C23

\* C23: at an address with a write value and an expected value the write is
\* issued before the read that is compared: every comparison follows a read
\* of the address that follows the write and returns the bytes written, with
\* no other write in between, and no read of the address after the write
\* returns anything else; within a step the calls and comparisons of address
\* i all come before the first call of address i+1.
C23_WriteBeforeVerify ==
  /\ \A j \in DOMAIN trace :
       (trace[j].ev \in {"read", "write", "expect"}) =>
         LET k == trace[j].key
             step == StepAt(StepOf(k))
             ws == {i \in Where("write") : trace[i].key = k}
         IN  /\ \A i2 \in DOMAIN trace :
                  ( /\ trace[i2].ev \in {"read", "write", "expect"}
                    /\ StepOf(trace[i2].key) = StepOf(k)
                    /\ trace[i2].key[4] > k[4] ) => j < i2
             /\ (HasWrite(step, k[4]) /\ HasExpected(step, k[4])) =>
                  /\ Cardinality(ws) <= 1
                  /\ (trace[j].ev = "read" /\ trace[j].ok /\ \E i \in ws : i < j) =>
                       \A i \in ws : /\ trace[i].ok
                                      /\ j = i + 1
                                      /\ trace[j].data = trace[i].data
                                      /\ trace[j].off = trace[i].off
                                      /\ trace[j].db = trace[i].db
                  /\ trace[j].ev = "expect" =>
                       /\ trace[j - 1].ev = "read" /\ trace[j - 1].key = k
                       /\ \E i \in ws : i = j - 2

\* Both addresses of the step "words" were written, read back and compared,
\* the first before the second.
C23_Witness ==
  /\ variant = "console" /\ pc = "done"
  /\ StepAt(<<1, 1, 1>>) = StepBroadcast
  /\ \E i \in Where("write") :
       /\ trace[i].key = <<1, 1, 1, 1>> /\ trace[i + 1].ev = "read"
       /\ trace[i + 2].ev = "expect" /\ ~trace[i + 2].ok
       /\ trace[i + 3].ev = "write" /\ trace[i + 3].key = <<1, 1, 1, 2>>
       /\ trace[i + 4].ev = "read" /\ trace[i + 4].data = trace[i + 3].data
       /\ trace[i + 5].ev = "expect" /\ trace[i + 5].ok

\* ---------------------------------------------------------------- C24

\* The type tag the step declares for address position pos, read off the
\* data_type field; "" when the field has neither one tag nor a tag at pos.
TagOf(step, pos) ==
  LET tags == step.data_type.items
  IN  IF Len(tags) = 1 THEN tags[1]
      ELSE IF pos <= Len(tags) THEN tags[pos] ELSE ""
TagSize(tag) ==
  CASE tag \in {"BOOL", "BYTE"} -> 1
    [] tag \in {"INT", "WORD"} -> 2
    [] tag \in {"DINT", "DWORD", "REAL"} -> 4
    [] OTHER -> 0
\* The value a comparison of that tag decodes from the bytes read.
TagValue(tag, bytes) ==
  CASE tag = "BOOL" -> 0
    [] tag = "BYTE" -> bytes[1]
    [] tag = "INT" -> IF bytes[1] >= 128 THEN bytes[1] * 256 + bytes[2] - 65536
                      ELSE bytes[1] * 256 + bytes[2]
    [] tag = "WORD" -> bytes[1] * 256 + bytes[2]
    [] OTHER -> get_func(tag, bytes)

\* C24: every device call of an address has the width of the type tag the
\* step declares for it, the single tag when the step has one tag (a scalar
\* or a one-element list) and several addresses, the i-th tag when it has a
\* list as long as the addresses, and the compared value is decoded by that
\* tag; a step with one tag or with as many tags as addresses never fails for
\* a missing tag, and when it ends without an error each of its addresses
\* that has a write or an expected value was processed.
C24_TypeBroadcast ==
  /\ \A i \in DeviceCalls :
       LET k == trace[i].key
           step == StepAt(StepOf(k))
           tag == TagOf(step, k[4])
       IN  /\ trace[i].n = TagSize(tag)
           /\ (trace[i].ok /\ trace[i].ev = "read" /\ tag # "BOOL"
                /\ i < Len(trace) /\ trace[i + 1].ev = "expect") =>
                  trace[i + 1].n = TagValue(tag, trace[i].data)
  /\ \A j \in DOMAIN failures :
       (InTest /\ failures[j].msg = "IndexError") =>
         LET step == CurTest.steps[failures[j].step]
         IN  Len(step.data_type.items) \notin {1, Len(step.start.items)}
  /\ (pc = "done" /\ exc = "") =>
       \A q \in PlanSteps :
         LET step == StepAt(q)
             N == Len(step.start.items)
         IN  ( /\ Len(step.data_type.items) \in {1, N}
               /\ \A j \in Where("error") : StepOf(trace[j].key) # q ) =>
               \A pos \in 1..N :
                 (HasWrite(step, pos) \/ HasExpected(step, pos)) =>
                   \E i \in DeviceCalls : trace[i].key = <<q[1], q[2], q[3], pos>>

\* The three addresses of the step with the one-element type list ["BYTE"]
\* were each written and read as one byte.
C24_Witness ==
  /\ variant = "gui" /\ pc = "done"
  /\ StepAt(<<1, 1, 1>>) = StepOneTag
  /\ \A pos \in 1..3 :
       \E i \in Where("write") :
         /\ trace[i].key = <<1, 1, 1, pos>> /\ trace[i].ok /\ trace[i].n = 1
         /\ trace[i + 1].ev = "read" /\ trace[i + 1].ok /\ trace[i + 1].n = 1

\* ---------------------------------------------------------------- C25

\* The steps of the plans whose write or expected list is shorter or longer
\* than their address list, and that are otherwise in order.
UnevenSteps == {StepShortValues, StepScalarValues, StepLongValues}

\* C25: a device call or comparison only happens at one of the N addresses of
\* its step; a write only at an address for which the write field has an
\* entry, a comparison only at one for which the expected field has one (a
\* scalar counts for the first address only); a step whose value lists are
\* shorter or longer than its addresses gets no error entry and raises nothing
\* unless a device call raises, and when it ends without error exactly the
\* addresses with an entry were written and exactly those with an expected
\* entry were read.
C25_LengthMismatchTolerated ==
  /\ \A i \in DOMAIN trace :
       trace[i].ev \in {"read", "write", "expect"} =>
         LET step == StepAt(StepOf(trace[i].key))
             pos == trace[i].key[4]
         IN  /\ pos \in 1..Len(step.start.items)
             /\ trace[i].ev = "write" => HasWrite(step, pos)
             /\ trace[i].ev = "expect" => HasExpected(step, pos)
             /\ trace[i].ev = "read" =>
                  \/ HasExpected(step, pos)
                  \/ TagOf(step, pos) = "BOOL" /\ HasWrite(step, pos)
  /\ \A q \in PlanSteps :
       StepAt(q) \in UnevenSteps =>
         LET step == StepAt(q)
             calls == {i \in DeviceCalls : StepOf(trace[i].key) = q}
             errs == {j \in Where("error") : StepOf(trace[j].key) = q}
         IN  /\ \A j \in errs : trace[j - 1].ev \in DeviceEvents /\ ~trace[j - 1].ok
             /\ exc \in {"", "connect", "transport", "AssertionError"}
             /\ (pc = "done" /\ exc = "" /\ errs = {}) =>
                  \A pos \in 1..Len(step.start.items) :
                    /\ HasWrite(step, pos) <=>
                         \E i \in calls : trace[i].ev = "write" /\ trace[i].key[4] = pos
                    /\ HasExpected(step, pos) <=>
                         \E i \in calls : trace[i].ev = "read" /\ trace[i].key[4] = pos

\* The step with three addresses, one write value and two expected values
\* ran without an error entry: one write, two reads, nothing at the third
\* address.
C25_Witness ==
  /\ variant = "console" /\ pc = "done" /\ exc = ""
  /\ StepAt(<<1, 1, 1>>) = StepShortValues
  /\ Where("error") = {}
  /\ Cardinality({i \in Where("write") : StepOf(trace[i].key) = <<1, 1, 1>>}) = 1
  /\ Cardinality({i \in Where("read") : StepOf(trace[i].key) = <<1, 1, 1>>}) = 2
  /\ \E i \in DeviceCalls : StepOf(trace[i].key) = <<1, 1, 2>>

\* ---------------------------------------------------------------- C26

\* The pauses of step q.
SleepsOf(q) == {i \in Where("sleep") : StepOf(trace[i].key) = q}
CallsOf(q) == {i \in DeviceCalls : StepOf(trace[i].key) = q}
\* The position of the start of the step entered at j: its "Step" line in the
\* runners that log.
StartOf(j) == IF Aggregating THEN j + 1 ELSE j

\* The step entered at position j of the trace pauses exactly once, for its
\* delay_ms, directly after its start and before each of its device calls,
\* which come in the order of the addresses; when the step ends without an
\* error it has written every address with a write value and read every
\* address with an expected value.
PausesBeforeIO(j) ==
  LET q == StepOf(trace[j].key)
      step == StepAt(q)
      calls == CallsOf(q)
      first == StartOf(j)
  IN  /\ SleepsOf(q) = {first + 1}
      /\ trace[first + 1].n = step.delay_ms.v
      /\ trace[first + 1].ok
      /\ Aggregating => trace[first].ev = "step" /\ StepOf(trace[first].key) = q
      /\ \A i \in calls : i > first + 1
      /\ \A i1, i2 \in calls : i1 < i2 => trace[i1].key[4] <= trace[i2].key[4]
      /\ ( /\ pc = "done" /\ exc = ""
           /\ \A e \in Where("error") : StepOf(trace[e].key) # q ) =>
           \A pos \in 1..Len(step.start.items) :
             /\ HasWrite(step, pos) =>
                  \E i \in calls : trace[i].ev = "write" /\ trace[i].key[4] = pos
             /\ HasExpected(step, pos) =>
                  \E i \in calls : trace[i].ev = "read" /\ trace[i].key[4] = pos

\* C26 as stated: every step with delay_ms set and not 0 pauses after its
\* start and before its device calls, none of which the delay skips; a step
\* with delay_ms absent or 0 does not pause.
C26_EveryNonZeroDelay ==
  \A j \in Where("enter") :
    LET step == StepAt(StepOf(trace[j].key))
    IN  IF ~IsNone(step.delay_ms) /\ step.delay_ms.v # 0
        THEN PausesBeforeIO(j)
        ELSE SleepsOf(StepOf(trace[j].key)) = {}

\* C26 (amended): a step with delay_ms > 0 pauses once, for delay_ms, after
\* its start and before its device calls, and the pause skips or reorders none
\* of them; a step with delay_ms absent or 0 does not pause; for a step with
\* delay_ms < 0 the sleep raises: the step issues no device call, and the
\* aggregating runners record one error entry for it and go on, while the
\* module-level runner ends the run with the exception.
C26_DelayOrdering ==
  \A j \in Where("enter") :
    LET q == StepOf(trace[j].key)
        step == StepAt(q)
        first == StartOf(j)
    IN  CASE IsNone(step.delay_ms) \/ step.delay_ms.v = 0 -> SleepsOf(q) = {}
          [] ~IsNone(step.delay_ms) /\ step.delay_ms.v > 0 -> PausesBeforeIO(j)
          [] OTHER ->
               /\ SleepsOf(q) = {first + 1} /\ ~trace[first + 1].ok
               /\ CallsOf(q) = {}
               /\ IF Aggregating
                  THEN /\ trace[first + 2].ev = "error"
                       /\ StepOf(trace[first + 2].key) = q
                       /\ (InTest /\ TestOf(q) = <<mi, ti>>) =>
                            /\ ~success
                            /\ \E f \in DOMAIN failures :
                                 failures[f].step = q[3] /\ failures[f].msg = "ValueError"
                       /\ q[3] < Len(plan[q[1]].tests[q[2]].steps) =>
                            ProceedsPast(first + 2, q)
                  ELSE exc = "ValueError" /\ pc \in {"finally", "done"}

\* A run in which the step with delay_ms = 20 paused before its six device
\* calls and the step with delay_ms = 30 before its three.
C26_Witness ==
  /\ variant = "console" /\ pc = "done"
  /\ StepAt(<<1, 1, 1>>) = StepOneTag /\ StepAt(<<1, 1, 2>>) = StepPause
  /\ \E i \in SleepsOf(<<1, 1, 1>>) : trace[i].n = 20
  /\ Cardinality({i \in CallsOf(<<1, 1, 1>>) : trace[i].ok}) = 6
  /\ \E i \in SleepsOf(<<1, 1, 2>>) : trace[i].n = 30
  /\ Cardinality({i \in CallsOf(<<1, 1, 2>>) : trace[i].ok}) = 3

\* ---------------------------------------------------------------- C27

\* C27: a BYTE step with write value w, run with no device call raising,
\* issues one write of the one byte w mod 256, whatever the integer w; a BYTE
\* comparison follows a read of one byte and passes exactly when the byte,
\* taken as 0..255, equals the expected integer.
C27_ByteWriteTruncates ==
  /\ \A i \in Where("write") : trace[i].n = 1 /\ Len(trace[i].data) = 1
  /\ \A i \in Where("expect") :
       LET step == StepAt(StepOf(trace[i].key))
       IN  /\ trace[i - 1].ev = "read" /\ trace[i - 1].n = 1
           /\ trace[i].n = trace[i - 1].data[1] /\ trace[i].n \in 0..255
           /\ trace[i].ok <=> trace[i].n = step.expected.items[1].v
  /\ (pc = "done" /\ FailedCalls = {} /\ exc # "connect") =>
       \A q \in PlanSteps :
         HasWrite(StepAt(q), 1) =>
           \E i \in Where("write") :
             /\ StepOf(trace[i].key) = q
             /\ trace[i].data = <<StepAt(q).write.items[1].v % 256>>

\* ---------------------------------------------------------------- C28

\* The number of entries of a scalar-or-list field, None counting for none.
Count(field) ==
  IF field.list THEN Len(field.items)
  ELSE IF IsNone(field.items[1]) THEN 0 ELSE 1

\* The conditions of the claim on what was typed.
ValidForm(form) ==
  LET N == Len(form.starts)
  IN  /\ form.desc \notin {"", " "}
      /\ N >= 1 /\ Len(form.types) >= 1
      /\ Len(form.types) = 1 \/ Len(form.types) = N
      /\ Len(form.writes) \in {0, N}
      /\ Len(form.expecteds) \in {0, N}

\* C28: a press of OK gives a TestStep only for a form with a description,
\* at least one address and one type, as many types as addresses or a single
\* one, and no or as many write values and no or as many expected values as
\* addresses, and the step has these addresses, types and values; without a
\* result, and after Cancel, the plan is what it was before; with one, the
\* step is appended (add) or takes the place of the selected step (edit) and
\* nothing else changes.
C28_EditorValidates ==
  \A i \in DOMAIN trace :
    LET d == trace[i]
        steps == CurTest.steps
        old == d.before[1].tests[1].steps
    IN  IF ~d.result.ok
        THEN plan = d.before
        ELSE /\ d.ev = "ok"
             /\ ValidForm(d.form)
             /\ d.result.step.description = d.form.desc
             /\ Len(d.result.step.start.items) = Len(d.form.starts)
             /\ Len(d.result.step.data_type.items) = Len(d.form.starts)
             /\ Count(d.result.step.write) = Len(d.form.writes)
             /\ Count(d.result.step.expected) = Len(d.form.expecteds)
             /\ IF d.op = "adding"
                THEN steps = Append(old, d.result.step)
                ELSE /\ Len(steps) = Len(old)
                     /\ \A j \in DOMAIN steps :
                          steps[j] = IF j = d.sel THEN d.result.step ELSE old[j]

\* A form with two addresses, one type and two write values gave the step
\* that was added.
C28_Witness ==
  /\ pc = "window" /\ clicks = 1
  /\ \E i \in DOMAIN trace :
       /\ trace[i].result.ok /\ trace[i].op = "adding"
       /\ Len(trace[i].form.starts) = 2 /\ Len(trace[i].form.writes) = 2
       /\ Len(trace[i].form.types) = 1
       /\ Len(CurTest.steps) = 2
       /\ trace[i].before = SinglePlan(StepSetBit)

\* ---------------------------------------------------------------- C29

\* The outcome of the console's run of the test, kept when the GUI takes over.
ConsoleRun == trace[1].data
GuiCalls == SelectSeq(trace, LAMBDA x : x.ev \in DeviceEvents)

\* What the runner asks of the device, apart from what the device answers.
SameRequest(a, b) ==
  /\ a.ev = b.ev /\ a.key = b.key /\ a.db = b.db /\ a.off = b.off /\ a.n = b.n
  /\ a.ev = "write" => a.data = b.data

\* The first k calls of both runs were the same and were answered the same.
SameSoFar(k) == \A j \in 1..k : ConsoleRun.calls[j] = GuiCalls[j]

Shorter == IF Len(ConsoleRun.calls) < Len(GuiCalls)
           THEN Len(ConsoleRun.calls) ELSE Len(GuiCalls)

Aborted ==
  { [q |-> trace[r].key, r |-> r] : r \in Where("error") }
  \cup (IF Raising /\ pc \in {"finally", "done"} /\ exc \notin {"", "connect"}
        THEN { [q |-> Key, r |-> Len(trace) + 1] } ELSE {})

\* The calls and comparisons of the addresses before the one that raised.
EarlierOf(a, ev) ==
  { j \in Where(ev) : /\ j < a.r
                      /\ StepOf(trace[j].key) = StepOf(a.q)
                      /\ trace[j].key[4] < a.q[4] }

Covers(j, db, o) ==
  /\ trace[j].ev = "write" /\ trace[j].ok /\ trace[j].db = db
  /\ o >= trace[j].off /\ o < trace[j].off + trace[j].n

\* The byte the device last accepted for offset o of block db.
LastWritten(db, o) ==
  LET W == {j \in DOMAIN trace : Covers(j, db, o)}
      j == CHOOSE x \in W : \A y \in W : y <= x
  IN  trace[j].data[o - trace[j].off + 1]

\* C30: when an address after the first of a step raises, every write the
\* device accepted for the earlier addresses of the step is still in the
\* device (each byte holds what was last written to it, and the step made one
\* write per address and none after it was left), and every mismatch of the
\* earlier addresses has its line in the failure list, followed by the error
\* entry of the step.
C30_PartialEffectsPersist ==
  \A a \in Aborted :
    /\ \A j \in EarlierOf(a, "write") :
         trace[j].ok =>
           /\ \A o \in trace[j].off..(trace[j].off + trace[j].n - 1) :
                mem[trace[j].db][o] = LastWritten(trace[j].db, o)
           /\ \A k \in EarlierOf(a, "write") :
                trace[k].key = trace[j].key => k = j
    /\ \A j \in DeviceCalls : j > a.r => StepOf(trace[j].key) # StepOf(a.q)
    /\ Aggregating =>
         \A j \in EarlierOf(a, "expect") :
           ~trace[j].ok =>
             \E x, y \in DOMAIN failures :
               /\ x < y
               /\ failures[x].kind = "mismatch" /\ failures[x].step = a.q[3]
               /\ failures[x].pos = trace[j].key[4]
               /\ failures[y].kind = "error" /\ failures[y].step = a.q[3]

\* The second address of a step raised after the first was written and found
\* to differ from what was expected.
C30_Witness ==
  /\ Aggregating
  /\ \E a \in Aborted :
       /\ a.q[4] >= 2
       /\ \E j \in EarlierOf(a, "write") : trace[j].ok
       /\ \E j \in EarlierOf(a, "expect") : ~trace[j].ok
       /\ Len(failures) >= 2

\* ---------------------------------------------------------------- C31

\* The step has an error line at one of its addresses up to p.
RaisedUpTo(q, p) ==
  \E r \in Where("error") : StepOf(trace[r].key) = q /\ trace[r].key[4] <= p

\* The runner has not yet come to address p of step q.
NotYetAt(q, p) ==
  pc = "addr" /\ <<mi, ti, si>> = q /\ ai <= p

\* C31: in the aggregating runners, after a comparison that fails at address
\* i of a step every later address p of the step still gets its write and
\* its comparison, unless the runner is not there yet or the step raised at
\* an address up to p; no error entry stems from the mismatch itself; and the
\* mismatch lines of a step are at most one per address and only at
\* addresses with an expected value.
C31_MismatchDoesNotStopStep ==
  Aggregating =>
    /\ \A j \in Where("expect") :
         ~trace[j].ok =>
           LET k == trace[j].key
               q == StepOf(k)
               step == StepAt(q)
           IN  \A p \in (k[4] + 1)..Len(step.start.items) :
                 \/ NotYetAt(q, p)
                 \/ RaisedUpTo(q, p)
                 \/ /\ HasWrite(step, p) =>
                          \E x \in Where("write") : x > j /\ trace[x].key = <<q[1], q[2], q[3], p>>
                    /\ HasExpected(step, p) =>
                          \E x \in Where("expect") : x > j /\ trace[x].key = <<q[1], q[2], q[3], p>>
    /\ \A x \in DOMAIN failures : failures[x].msg # "AssertionError"
    /\ \A q \in PlanSteps :
         LET lines == {x \in DOMAIN failures :
                         failures[x].kind = "mismatch" /\ failures[x].step = q[3]}
             checked == {p \in 1..Len(StepAt(q).start.items) : HasExpected(StepAt(q), p)}
         IN  /\ \A x \in lines : failures[x].pos \in checked
             /\ \A x, y \in lines : failures[x].pos = failures[y].pos => x = y
             /\ Cardinality(lines) <= Cardinality(checked)

\* The first and the third address of a step of three differ from what was
\* expected: the second and third were written after the first mismatch, and
\* the step has two mismatch lines.
C31_Witness ==
  /\ Aggregating
  /\ \E j \in Where("expect") :
       /\ ~trace[j].ok /\ trace[j].key = <<1, 1, 1, 1>>
       /\ \E x \in Where("write") : x > j /\ trace[x].ok /\ trace[x].key = <<1, 1, 1, 2>>
       /\ \E x \in Where("expect") : x > j /\ ~trace[x].ok /\ trace[x].key = <<1, 1, 1, 3>>
  /\ Cardinality({x \in DOMAIN failures :
                    failures[x].kind = "mismatch" /\ failures[x].step = 1}) = 2

\* ---------------------------------------------------------------- C32

\* The value the plan declares at position pos of a write or expected field.
RawAt(field, pos) == IF field.list THEN field.items[pos] ELSE field.items[1]

\* The step was left at an address up to p: a device call raised there, an
\* Error line was printed there, or the module-level runner raised there.
StoppedUpTo(q, p) ==
  \/ \E i \in DOMAIN trace :
       /\ StepOf(trace[i].key) = q /\ trace[i].key[4] <= p
       /\ trace[i].ev = "error" \/ (trace[i].ev \in DeviceEvents /\ ~trace[i].ok)
  \/ Raising /\ exc # "" /\ <<mi, ti, si>> = q /\ ai <= p

AtKey(ev, q, p) == {i \in Where(ev) : trace[i].key = <<q[1], q[2], q[3], p>>}

\* C32: at every address the runner has passed without the step being left,
\* a write value other than None, 0 and False included, was written (as
\* zero bytes, or for BOOL with the bit cleared), and no write was issued
\* where the value is None or missing; an expected value other than None, 0
\* and False included, was read and compared, and nothing was compared where
\* it is None; a None in a list affects its own address only, which the two
\* clauses give for each address apart; and a step with delay_ms 0 or None
\* never sleeps.
C32_OnlyNoneIsAbsent ==
  \A j \in Where("enter") :
       LET q == StepOf(trace[j].key)
           step == StepAt(q)
       IN  /\ ~Truthy(step.delay_ms) =>
                ~\E x \in Where("sleep") : StepOf(trace[x].key) = q
           /\ \A p \in 1..Len(step.start.items) :
             LET tag == TagOf(step, p)
                 ws == AtKey("write", q, p)
                 rs == AtKey("read", q, p)
                 es == AtKey("expect", q, p)
             IN  /\ ~HasWrite(step, p) => ws = {}
                 /\ ~HasExpected(step, p) =>
                      /\ es = {}
                      /\ (rs # {} => tag = "BOOL" /\ HasWrite(step, p))
                 /\ (~NotYetAt(q, p) /\ ~StoppedUpTo(q, p)) =>
                      /\ HasWrite(step, p) =>
                           /\ Cardinality(ws) = 1
                           /\ \A x \in ws :
                                IF tag = "BOOL"
                                THEN ~Bit(trace[x].data[1], step.start.items[p].parts[2])
                                     \/ Truthy(RawAt(step.write, p))
                                ELSE Truthy(RawAt(step.write, p))
                                     \/ trace[x].data = [b \in 1..TagSize(tag) |-> 0]
                      /\ HasExpected(step, p) =>
                           /\ \E x \in rs : \A y \in ws : y < x
                           /\ Aggregating => Cardinality(es) = 1
                           /\ \A x \in es :
                                ~Truthy(RawAt(step.expected, p)) =>
                                  /\ trace[x].n = 0 => trace[x].ok
                                  /\ (tag # "REAL" /\ trace[x].ok) => trace[x].n = 0

\* A BYTE step with delay_ms 0 on a device holding 127 everywhere: the first
\* address has no write value and the expected value 0, which fails; the
\* second has the write value 0 and the expected value 0, is written with a
\* zero byte and passes.
C32_Witness ==
  /\ Aggregating /\ pc = "done"
  /\ plan = SinglePlan(ListCase("BYTE", <<None, PyInt(0)>>, <<PyInt(0), PyInt(0)>>,
                                PyInt(0)))
  /\ AtKey("write", <<1, 1, 1>>, 1) = {}
  /\ \E x \in AtKey("expect", <<1, 1, 1>>, 1) : ~trace[x].ok
  /\ \E x \in AtKey("write", <<1, 1, 1>>, 2) : trace[x].ok /\ trace[x].data = <<0>>
  /\ \E x \in AtKey("expect", <<1, 1, 1>>, 2) : trace[x].ok
  /\ mem[2][0] = 127 /\ mem[2][4] = 0

\* ---------------------------------------------------------------- C33

\* The byte offset the plan declares for an address: the number itself, or
\* the byte part of "byte.bit".
OffsetOf(start) == start.parts[1]

\* The bytes address position p of the step covers, by its declared tag.
RangeOf(step, p) ==
  LET off == OffsetOf(step.start.items[p])
  IN  off..(off + TagSize(TagOf(step, p)) - 1)

\* Every device write is a write of the step's block, at the offset of the
\* address it was issued for, of as many bytes as the address's type has; a
\* BOOL write comes right after a read of the same byte that returned, and no
\* other write has a read of its address before it.
WritesAreDeclared ==
  \A i \in Where("write") :
    LET k == trace[i].key
        step == StepAt(StepOf(k))
        tag == TagOf(step, k[4])
    IN  /\ HasWrite(step, k[4])
        /\ trace[i].db = step.db_number
        /\ trace[i].off = OffsetOf(step.start.items[k[4]])
        /\ trace[i].n = TagSize(tag) /\ Len(trace[i].data) = TagSize(tag)
        /\ IF tag = "BOOL"
           THEN /\ i > 1
                /\ trace[i - 1].ev = "read" /\ trace[i - 1].ok
                /\ trace[i - 1].key = k /\ trace[i - 1].db = trace[i].db
                /\ trace[i - 1].off = trace[i].off /\ trace[i - 1].n = 1
           ELSE ~\E j \in Where("read") : j < i /\ trace[j].key = k

\* A byte of the device that changes is a byte of the address the runner is
\* at, in the block of its step, and the address has a write value.
OnlyDeclaredBytesChange ==
  \A db \in DOMAIN mem : \A o \in DOMAIN mem[db] :
    mem'[db][o] # mem[db][o] =>
      /\ pc = "addr" /\ ai <= Len(CurStep.start.items)
      /\ db = CurStep.db_number
      /\ o \in RangeOf(CurStep, ai)
      /\ HasWrite(CurStep, ai)

\* C33: every device write of a step goes to the step's db_number at the
\* offset of one of its addresses with the size of that address's type (1
\* for BOOL and BYTE, 2 for INT and WORD, 4 for DINT, DWORD and REAL), no
\* other byte of the device changes, and only a BOOL write has a read of its
\* byte before it.
C33_OnlyDeclaredMemory == []WritesAreDeclared /\ [][OnlyDeclaredBytesChange]_vars

\* The step of a BOOL, a BYTE and a DWORD address has run: the BOOL write
\* followed a read, the DWORD write of four bytes did not, and the bytes of
\* block 2 outside 0..5 and all of block 1 are as they were.
C33_Witness ==
  /\ pc = "done" /\ StepAt(<<1, 1, 1>>) = StepMixed
  /\ \E i \in Where("write") :
       trace[i].ok /\ trace[i].key = <<1, 1, 1, 1>> /\ trace[i].n = 1
  /\ \E i \in Where("write") :
       trace[i].ok /\ trace[i].key = <<1, 1, 1, 3>> /\ trace[i].n = 4
  /\ mem[2][2] = 0 /\ mem[2][5] = 3 /\ mem[2][6] = 90
  /\ mem[1] = InitMem[1]

\* ---------------------------------------------------------------- C34

\* The call just made on the connection was connect, and the client's connect
\* returned / raised.
ConnectReturned ==
  Len(trace') = Len(trace) + 1 /\ trace'[Len(trace')].ev = "connect" /\ trace'[Len(trace')].ok
ConnectRaised ==
  Len(trace') = Len(trace) + 1 /\ trace'[Len(trace')].ev = "connect" /\ ~trace'[Len(trace')].ok
ClientDisconnectCalled ==
  Len(trace') = Len(trace) + 1 /\ trace'[Len(trace')].ev = "disconnect"

\* What holds of the flag whatever the client does: it starts False, turns
\* True only with a connect that returned, is left as it was by a connect
\* that raised, is False after every disconnect, and the client's disconnect
\* is called only while it is True.
FlagTransitions ==
  /\ [](trace = <<>> => ~connected)
  /\ [][ /\ (~connected /\ connected') => ConnectReturned
         /\ ConnectReturned => connected'
         /\ ConnectRaised => connected' = connected
         /\ CalledDisconnect => ~connected'
         /\ ClientDisconnectCalled => connected ]_vars

====
